---- MODULE Spec2Model ----
(***************************************************************************)
(* Model of ntoskrnl/cm/ntfunc.c (ReactOS configuration manager): the      *)
(* registry callback list (CmRegisterCallback, CmUnRegisterCallback,       *)
(* CmiCallRegisteredCallbacks) and the Nt* registry dispatchers.           *)
(***************************************************************************)
EXTENDS Integers, Sequences, FiniteSets, TLC

(***************************************************************************)
(* Bounds of the model.                                                    *)
(***************************************************************************)
\* threads that call into the registry concurrently
NumThreads == 2
\* paged-pool addresses ExAllocatePoolWithTag can hand out for callbacks
NumAddrs == 2
\* successful CmRegisterCallback calls in one behaviour
MaxRegs == 3

Threads == 1..NumThreads
Addrs == 1..NumAddrs
NoThread == 0
\* &CmiCallbackHead: the list head, which is no callback entry
ListHead == 0
NoId == 0

STATUS_SUCCESS == "STATUS_SUCCESS"
STATUS_UNSUCCESSFUL == "STATUS_UNSUCCESSFUL"
STATUS_INSUFFICIENT_RESOURCES == "STATUS_INSUFFICIENT_RESOURCES"
STATUS_ACCESS_DENIED == "STATUS_ACCESS_DENIED"

\* NT_SUCCESS(Status): Status >= 0; of the statuses of the model only
\* STATUS_SUCCESS is non-negative (warnings 0x8... and errors 0xC... are not)
NT_SUCCESS(Status) == Status = STATUS_SUCCESS

\* what a registered callback function may return
CallbackResults == {STATUS_SUCCESS, STATUS_ACCESS_DENIED}

VARIABLES
  CmiCallbackHead,  \* the callback list, in list order (sequence of addresses)
  CmiCallbackLock,  \* FAST_MUTEX: the owning thread, or NoThread
  Callback,         \* pool memory: address -> REGISTRY_CALLBACK
  regId,            \* history: address -> number of the registration living there
  regCount,         \* history: successful registrations so far
  unregDone,        \* history: registrations whose CmUnRegisterCallback returned SUCCESS
  pc,               \* thread -> the top-level call it is in
  reg,              \* thread -> CmRegisterCallback frame
  unr,              \* thread -> CmUnRegisterCallback frame
  inv,              \* thread -> CmiCallRegisteredCallbacks frame
  CmiRegistryLock,  \* ERESOURCE: exclusive owner and shared owners
  Cells,            \* the hive: cell index -> key cell
  KeyObject,        \* object memory: object -> KEY_OBJECT with its object header
                    \* (Refused is history: NtDeleteKey answered CANNOT_DELETE)
  HandleTable,      \* the caller's handle table: handle -> object
  fault,            \* a key object was freed while a handle or a child still points to it
  budget,           \* room: for keys besides the root, for handles of the caller,
                    \* for values of a key, for data cells of the hive
  CmiRegistryInitialized,  \* the global flag of NtInitializeRegistry
  bootWork,         \* history: NtInitializeRegistry calls begun, boot logs saved,
                    \* CmiInitHives calls made
  call              \* thread -> frame of the dispatcher it runs

cbvars == <<CmiCallbackHead, CmiCallbackLock, Callback, regId, regCount, unregDone,
            pc, reg, unr, inv>>

keyvars == <<CmiRegistryLock, Cells, KeyObject, HandleTable, fault, budget, CmiRegistryInitialized, bootWork, call>>

vars == <<cbvars, keyvars>>

(***************************************************************************)
(* REGISTRY_CALLBACK and the rundown protection of an entry.               *)
(***************************************************************************)
FreshCallback ==
  [Allocated |-> TRUE, PendingDelete |-> FALSE,
   RundownRef |-> [Count |-> 0, Active |-> FALSE]]

FreeMemory ==
  [Allocated |-> FALSE, PendingDelete |-> FALSE,
   RundownRef |-> [Count |-> 0, Active |-> FALSE]]

NoReg == [pc |-> "none", Callback |-> ListHead, Status |-> STATUS_SUCCESS]
NoUnr == [pc |-> "none", Cookie |-> ListHead, CurrentCallback |-> ListHead,
          Status |-> STATUS_SUCCESS, id |-> NoId, blocked |-> FALSE]
\* called, returned and first record the walk: the registrations whose
\* function was called, what each returned, and the registrations made
\* before the walk began
NoInv == [pc |-> "none", CurrentEntry |-> ListHead, Status |-> STATUS_SUCCESS,
          id |-> NoId, reentered |-> FALSE,
          called |-> <<>>, returned |-> <<>>, first |-> 0]

InList(e) == \E i \in 1..Len(CmiCallbackHead) : CmiCallbackHead[i] = e

IndexOf(e) == CHOOSE i \in 1..Len(CmiCallbackHead) : CmiCallbackHead[i] = e

\* Entry->Flink for the head or a linked entry; an entry that was unlinked
\* (and freed) holds a stale pointer: any address may be read there
Flink(e) ==
  IF e = ListHead
    THEN {IF CmiCallbackHead = <<>> THEN ListHead ELSE CmiCallbackHead[1]}
    ELSE IF InList(e)
      THEN {IF IndexOf(e) = Len(CmiCallbackHead) THEN ListHead
            ELSE CmiCallbackHead[IndexOf(e) + 1]}
      ELSE Addrs \cup {ListHead}

InsertTailList(list, e) == Append(list, e)

RemoveEntryList(list, e) == SelectSeq(list, LAMBDA x : x # e)

\* ExAcquireRundownProtection: fails once the rundown is active
ExAcquireRundownProtection(cb) == ~cb.RundownRef.Active

(***************************************************************************)
(* CmRegisterCallback                                                      *)
(***************************************************************************)
\* ExAllocatePoolWithTag and the initialisation of the entry
RegisterAllocate(t) ==
  /\ pc[t] = "idle"
  /\ regCount < MaxRegs
  /\ \E a \in {x \in Addrs : ~Callback[x].Allocated} :
       /\ Callback' = [Callback EXCEPT ![a] = FreshCallback]
       /\ reg' = [reg EXCEPT ![t] = [pc |-> "lock", Callback |-> a,
                                     Status |-> STATUS_SUCCESS]]
  /\ pc' = [pc EXCEPT ![t] = "CmRegisterCallback"]
  /\ UNCHANGED <<keyvars, CmiCallbackHead, CmiCallbackLock, regId, regCount, unregDone, unr, inv>>

\* ExAllocatePoolWithTag returned NULL
RegisterNoMemory(t) ==
  /\ pc[t] = "idle"
  /\ regCount < MaxRegs
  /\ reg' = [reg EXCEPT ![t] = [pc |-> "ret", Callback |-> ListHead,
                                Status |-> STATUS_INSUFFICIENT_RESOURCES]]
  /\ pc' = [pc EXCEPT ![t] = "CmRegisterCallback"]
  /\ UNCHANGED <<keyvars, CmiCallbackHead, CmiCallbackLock, Callback, regId, regCount,
                 unregDone, unr, inv>>

RegisterAcquire(t) ==
  /\ reg[t].pc = "lock"
  /\ CmiCallbackLock = NoThread
  /\ CmiCallbackLock' = t
  /\ reg' = [reg EXCEPT ![t].pc = "insert"]
  /\ UNCHANGED <<keyvars, CmiCallbackHead, Callback, regId, regCount, unregDone, pc, unr, inv>>

\* Cookie = address of the entry; InsertTailList; release; return
RegisterInsert(t) ==
  /\ reg[t].pc = "insert"
  /\ CmiCallbackLock = t
  /\ CmiCallbackHead' = InsertTailList(CmiCallbackHead, reg[t].Callback)
  /\ CmiCallbackLock' = NoThread
  /\ regCount' = regCount + 1
  /\ regId' = [regId EXCEPT ![reg[t].Callback] = regCount + 1]
  /\ reg' = [reg EXCEPT ![t].pc = "ret"]
  /\ UNCHANGED <<keyvars, Callback, unregDone, pc, unr, inv>>

RegisterReturn(t) ==
  /\ pc[t] = "CmRegisterCallback"
  /\ reg[t].pc = "ret"
  /\ reg' = [reg EXCEPT ![t] = NoReg]
  /\ pc' = [pc EXCEPT ![t] = "idle"]
  /\ UNCHANGED <<keyvars, CmiCallbackHead, CmiCallbackLock, Callback, regId, regCount,
                 unregDone, unr, inv>>

(***************************************************************************)
(* CmUnRegisterCallback                                                    *)
(***************************************************************************)
\* a top-level call with any cookie value
UnregisterCall(t, cookie) ==
  /\ pc[t] = "idle"
  /\ pc' = [pc EXCEPT ![t] = "CmUnRegisterCallback"]
  /\ unr' = [unr EXCEPT ![t] = [NoUnr EXCEPT !.pc = "lock", !.Cookie = cookie]]
  /\ UNCHANGED <<keyvars, CmiCallbackHead, CmiCallbackLock, Callback, regId, regCount,
                 unregDone, reg, inv>>

UnregisterAcquire(t) ==
  /\ unr[t].pc = "lock"
  /\ CmiCallbackLock = NoThread
  /\ CmiCallbackLock' = t
  /\ unr' = [unr EXCEPT ![t].pc = "scan"]
  /\ UNCHANGED <<keyvars, CmiCallbackHead, Callback, regId, regCount, unregDone, pc, reg, inv>>

\* the for loop over the list, under the lock
UnregisterScan(t) ==
  /\ unr[t].pc = "scan"
  /\ CmiCallbackLock = t
  /\ CmiCallbackLock' = NoThread
  /\ IF InList(unr[t].Cookie) /\ ~Callback[unr[t].Cookie].PendingDelete
       THEN /\ Callback' = [Callback EXCEPT ![unr[t].Cookie].PendingDelete = TRUE]
            /\ unr' = [unr EXCEPT ![t].pc = "wait",
                                  ![t].CurrentCallback = unr[t].Cookie,
                                  ![t].id = regId[unr[t].Cookie]]
       ELSE /\ unr' = [unr EXCEPT ![t].pc = "ret", ![t].Status = STATUS_UNSUCCESSFUL]
            /\ UNCHANGED Callback
  /\ UNCHANGED <<keyvars, CmiCallbackHead, regId, regCount, unregDone, pc, reg, inv>>

\* mutant: the rundown is marked active and nobody is waited for
ExWaitForRundownProtectionReleaseAtOnce(t) ==
  /\ unr[t].pc = "wait"
  /\ Callback' = [Callback EXCEPT ![unr[t].CurrentCallback].RundownRef.Active = TRUE]
  /\ unr' = [unr EXCEPT ![t].pc = "relock"]

\* ExWaitForRundownProtectionRelease: marks the rundown active, then blocks
\* until no acquirer is left
ExWaitForRundownProtectionRelease(t) ==
  \/ /\ unr[t].pc = "wait"
     /\ Callback' = [Callback EXCEPT ![unr[t].CurrentCallback].RundownRef.Active = TRUE]
     /\ unr' = [unr EXCEPT ![t].pc = "waiting",
                           ![t].blocked =
                             Callback[unr[t].CurrentCallback].RundownRef.Count > 0]
  \/ /\ unr[t].pc = "waiting"
     /\ Callback[unr[t].CurrentCallback].RundownRef.Count = 0
     /\ unr' = [unr EXCEPT ![t].pc = "relock"]
     /\ UNCHANGED Callback

\* mutant: CmUnRegisterCallback does not wait for the callback to finish
UnregisterWaitSkipped(t) ==
  /\ unr[t].pc = "wait"
  /\ unr' = [unr EXCEPT ![t].pc = "relock"]
  /\ UNCHANGED <<keyvars, CmiCallbackHead, CmiCallbackLock, Callback, regId, regCount,
                 unregDone, pc, reg, inv>>

UnregisterWait(t) ==
  /\ ExWaitForRundownProtectionRelease(t)
  /\ UNCHANGED <<keyvars, CmiCallbackHead, CmiCallbackLock, regId, regCount, unregDone, pc, reg, inv>>

UnregisterReacquire(t) ==
  /\ unr[t].pc = "relock"
  /\ CmiCallbackLock = NoThread
  /\ CmiCallbackLock' = t
  /\ unr' = [unr EXCEPT ![t].pc = "unlink"]
  /\ UNCHANGED <<keyvars, CmiCallbackHead, Callback, regId, regCount, unregDone, pc, reg, inv>>

\* mutant: the entry is freed without RemoveEntryList
UnregisterUnlinkSkipped(t) ==
  /\ unr[t].pc = "unlink"
  /\ CmiCallbackLock = t
  /\ CmiCallbackLock' = NoThread
  /\ unr' = [unr EXCEPT ![t].pc = "free"]
  /\ UNCHANGED <<keyvars, CmiCallbackHead, Callback, regId, regCount, unregDone, pc, reg, inv>>

UnregisterUnlink(t) ==
  /\ unr[t].pc = "unlink"
  /\ CmiCallbackLock = t
  /\ CmiCallbackHead' = RemoveEntryList(CmiCallbackHead, unr[t].CurrentCallback)
  /\ CmiCallbackLock' = NoThread
  /\ unr' = [unr EXCEPT ![t].pc = "free"]
  /\ UNCHANGED <<keyvars, Callback, regId, regCount, unregDone, pc, reg, inv>>

\* ExFreePool; return STATUS_SUCCESS
UnregisterFree(t) ==
  /\ unr[t].pc = "free"
  /\ Callback' = [Callback EXCEPT ![unr[t].CurrentCallback] = FreeMemory]
  /\ unregDone' = unregDone \cup {unr[t].id}
  /\ unr' = [unr EXCEPT ![t].pc = "ret", ![t].Status = STATUS_SUCCESS]
  /\ UNCHANGED <<keyvars, CmiCallbackHead, CmiCallbackLock, regId, regCount, pc, reg, inv>>

UnregisterReturn(t) ==
  /\ pc[t] = "CmUnRegisterCallback"
  /\ unr[t].pc = "ret"
  /\ unr' = [unr EXCEPT ![t] = NoUnr]
  /\ pc' = [pc EXCEPT ![t] = "idle"]
  /\ UNCHANGED <<keyvars, CmiCallbackHead, CmiCallbackLock, Callback, regId, regCount,
                 unregDone, reg, inv>>

(***************************************************************************)
(* CmiCallRegisteredCallbacks                                              *)
(***************************************************************************)
\* ExAcquireFastMutex; CurrentEntry = CmiCallbackHead.Flink
InvokeAcquire(t) ==
  /\ inv[t].pc = "lock"
  /\ CmiCallbackLock = NoThread
  /\ CmiCallbackLock' = t
  /\ \E n \in Flink(ListHead) :
       inv' = [inv EXCEPT ![t].pc = "walk", ![t].CurrentEntry = n]
  /\ UNCHANGED <<keyvars, CmiCallbackHead, Callback, regId, regCount, unregDone, pc, reg, unr>>

\* mutant: the walk does not look at PendingDelete
WalkCallsPending(e) ==
  IF Callback[e].Allocated
    THEN {ExAcquireRundownProtection(Callback[e])}
    ELSE BOOLEAN

\* whether the walk calls the function of entry e: the entry is not pending
\* delete and its rundown protection is acquired; the fields of a freed entry
\* hold anything
WalkCalls(e) ==
  IF Callback[e].Allocated
    THEN {~Callback[e].PendingDelete /\ ExAcquireRundownProtection(Callback[e])}
    ELSE BOOLEAN

\* one iteration of the for loop, up to the call of the function
InvokeWalk(t) ==
  /\ inv[t].pc = "walk"
  /\ CmiCallbackLock = t
  /\ IF inv[t].CurrentEntry = ListHead
       THEN /\ CmiCallbackLock' = NoThread
            /\ inv' = [inv EXCEPT ![t].pc = "ret"]
            /\ UNCHANGED Callback
       ELSE \E calls \in WalkCalls(inv[t].CurrentEntry) :
              IF calls
                THEN /\ Callback' = [Callback EXCEPT ![inv[t].CurrentEntry].RundownRef.Count = @ + 1]
                     /\ CmiCallbackLock' = NoThread
                     /\ inv' = [inv EXCEPT ![t].pc = "call",
                                           ![t].id = regId[inv[t].CurrentEntry],
                                           ![t].reentered = FALSE,
                                           ![t].called =
                                             Append(@, regId[inv[t].CurrentEntry])]
                ELSE /\ \E n \in Flink(inv[t].CurrentEntry) :
                          inv' = [inv EXCEPT ![t].CurrentEntry = n]
                     /\ UNCHANGED <<CmiCallbackLock, Callback>>
  /\ UNCHANGED <<keyvars, CmiCallbackHead, regId, regCount, unregDone, pc, reg, unr>>

\* the callback function calls CmUnRegisterCallback (at most once per call)
CallbackUnregisters(t, cookie) ==
  /\ inv[t].pc = "call"
  /\ unr[t].pc = "none"
  /\ ~inv[t].reentered
  /\ inv' = [inv EXCEPT ![t].reentered = TRUE]
  /\ unr' = [unr EXCEPT ![t] = [NoUnr EXCEPT !.pc = "lock", !.Cookie = cookie]]
  /\ UNCHANGED <<keyvars, CmiCallbackHead, CmiCallbackLock, Callback, regId, regCount,
                 unregDone, pc, reg>>

\* Status = CurrentCallback->Function(...): the function returns
CallbackReturns(t, status) ==
  /\ inv[t].pc = "call"
  /\ unr[t].pc \in {"none", "ret"}
  /\ inv' = [inv EXCEPT ![t].pc = "relock", ![t].Status = status,
                        ![t].returned = Append(@, status)]
  /\ unr' = [unr EXCEPT ![t] = NoUnr]
  /\ UNCHANGED <<keyvars, CmiCallbackHead, CmiCallbackLock, Callback, regId, regCount,
                 unregDone, pc, reg>>

InvokeReacquire(t) ==
  /\ inv[t].pc = "relock"
  /\ CmiCallbackLock = NoThread
  /\ CmiCallbackLock' = t
  /\ inv' = [inv EXCEPT ![t].pc = "release"]
  /\ UNCHANGED <<keyvars, CmiCallbackHead, Callback, regId, regCount, unregDone, pc, reg, unr>>

\* mutant: the walk goes on after a callback has failed
InvokeReleaseNoBreak(t) ==
  /\ inv[t].pc = "release"
  /\ CmiCallbackLock = t
  /\ Callback' = [Callback EXCEPT ![inv[t].CurrentEntry].RundownRef.Count = @ - 1]
  /\ \E n \in Flink(inv[t].CurrentEntry) :
       inv' = [inv EXCEPT ![t].pc = "walk", ![t].CurrentEntry = n, ![t].id = NoId]
  /\ UNCHANGED <<keyvars, CmiCallbackHead, CmiCallbackLock, regId, regCount, unregDone,
                 pc, reg, unr>>

\* ExReleaseRundownProtection; break on failure, else CurrentEntry->Flink
InvokeRelease(t) ==
  /\ inv[t].pc = "release"
  /\ CmiCallbackLock = t
  /\ Callback' = [Callback EXCEPT ![inv[t].CurrentEntry].RundownRef.Count = @ - 1]
  /\ IF ~NT_SUCCESS(inv[t].Status)
       THEN /\ CmiCallbackLock' = NoThread
            /\ inv' = [inv EXCEPT ![t].pc = "ret", ![t].id = NoId]
       ELSE /\ \E n \in Flink(inv[t].CurrentEntry) :
                 inv' = [inv EXCEPT ![t].pc = "walk", ![t].CurrentEntry = n,
                                    ![t].id = NoId]
            /\ UNCHANGED CmiCallbackLock
  /\ UNCHANGED <<keyvars, CmiCallbackHead, regId, regCount, unregDone, pc, reg, unr>>

\* a bare call of CmiCallRegisteredCallbacks
InvokeCall(t) ==
  /\ pc[t] = "idle"
  /\ pc' = [pc EXCEPT ![t] = "CmiCallRegisteredCallbacks"]
  /\ inv' = [inv EXCEPT ![t] = [NoInv EXCEPT !.pc = "lock", !.first = regCount]]
  /\ UNCHANGED <<keyvars, CmiCallbackHead, CmiCallbackLock, Callback, regId, regCount,
                 unregDone, reg, unr>>

InvokeReturn(t) ==
  /\ pc[t] = "CmiCallRegisteredCallbacks"
  /\ inv[t].pc = "ret"
  /\ inv' = [inv EXCEPT ![t] = NoInv]
  /\ pc' = [pc EXCEPT ![t] = "idle"]
  /\ UNCHANGED <<keyvars, CmiCallbackHead, CmiCallbackLock, Callback, regId, regCount,
                 unregDone, reg, unr>>

(***************************************************************************)
(* The hive, the key objects and the object manager.                       *)
(***************************************************************************)
\* keys a hive may hold besides the root key
MaxKeys == 2
\* handles the caller's handle table holds
MaxHandles == 2
\* characters of the longest name handed to NtCreateKey and NtOpenKey
MaxPathLen == 3
\* largest pointer count followed for one key object
MaxPointerCount == 3

CellIds == 1..(MaxKeys + 1)
ObjIds == 1..(MaxKeys + 1)
Handles == 1..MaxHandles
HCELL_NULL == 0
NoObject == 0
NoHandle == 0

STATUS_CANNOT_DELETE == "STATUS_CANNOT_DELETE"
STATUS_OBJECT_NAME_NOT_FOUND == "STATUS_OBJECT_NAME_NOT_FOUND"
STATUS_NO_MORE_ENTRIES == "STATUS_NO_MORE_ENTRIES"
STATUS_INVALID_HANDLE == "STATUS_INVALID_HANDLE"

HvStable == "HvStable"
HvVolatile == "HvVolatile"
Storages == {HvStable, HvVolatile}
KO_MARKED_FOR_DELETE == "KO_MARKED_FOR_DELETE"
REG_OPTION_VOLATILE == "REG_OPTION_VOLATILE"
REG_OPTION_NON_VOLATILE == "REG_OPTION_NON_VOLATILE"
REG_CREATED_NEW_KEY == "REG_CREATED_NEW_KEY"
REG_OPENED_EXISTING_KEY == "REG_OPENED_EXISTING_KEY"
Backslash == "\\"
Chars == {Backslash, "X"}

\* the names a caller passes: all strings of up to MaxPathLen characters
Paths == UNION {[1..n -> Chars] : n \in 0..MaxPathLen}

\* the smallest member of a non-empty set of numbers
Least(S) == CHOOSE x \in S : \A y \in S : x <= y

FreeCell ==
  [InUse |-> FALSE, Parent |-> HCELL_NULL, Name |-> <<>>, Storage |-> HvStable,
   SubKeyCounts |-> [s \in Storages |-> 0],
   SubKeyLists |-> [s \in Storages |-> <<>>],
   Values |-> <<>>, ClassSize |-> 0, LastWriteTime |-> 0, Flags |-> {},
   Dirty |-> FALSE]

SystemHive == "SystemHive"

FreeObject ==
  [Allocated |-> FALSE, KeyCellOffset |-> HCELL_NULL, ParentKey |-> NoObject,
   Name |-> <<>>, Flags |-> {}, RegistryHive |-> SystemHive,
   PointerCount |-> 0, HandleCount |-> 0, Linked |-> FALSE,
   Refused |-> FALSE]

\* the root key of the hive and its key object
RootCell == Least(CellIds)
RootKey == Least(ObjIds)

\* the object manager and the hive as one value, so that the calls of a
\* handler compose
World ==
  [KeyObject |-> KeyObject, Cells |-> Cells, HandleTable |-> HandleTable,
   fault |-> fault, dereferenced |-> 0]

\* CmiRemoveSubKey: unlink the key cell from its parent and free it, with
\* its value cells and their data cells
CmiRemoveSubKey(cells, c) ==
  LET p == cells[c].Parent
      s == cells[c].Storage
      data == {cells[c].Values[i].DataOffset : i \in
                 {j \in 1..Len(cells[c].Values) :
                    /\ ~cells[c].Values[j].InOffset
                    /\ cells[c].Values[j].DataSize # 0}}
      unlinked == IF p = HCELL_NULL THEN cells
                  ELSE [cells EXCEPT
                          ![p].SubKeyCounts[s] = @ - 1,
                          ![p].SubKeyLists[s] = SelectSeq(@, LAMBDA x : x # c)]
  IN [d \in DOMAIN cells |->
        IF d = c THEN FreeCell
        ELSE IF d \in data THEN [InUse |-> FALSE, Size |-> 0, Data |-> <<>>]
        ELSE unlinked[d]]

\* the key type's delete procedure, run when the last reference goes: a key
\* marked for delete loses its cell; the object leaves the key object list
\* and its memory is freed.  Handles and child objects that still point to
\* the object are left dangling, and the freed memory keeps what it held.
CmiObjectDelete(w, o) ==
  LET ko == w.KeyObject[o]
      dangling == \/ ko.HandleCount > 0
                  \/ \E k \in ObjIds : /\ k # o
                                       /\ w.KeyObject[k].Allocated
                                       /\ w.KeyObject[k].ParentKey = o
  IN [w EXCEPT !.KeyObject[o] = IF dangling THEN [ko EXCEPT !.Allocated = FALSE]
                                 ELSE FreeObject,
               !.Cells = IF KO_MARKED_FOR_DELETE \in ko.Flags
                                /\ ko.KeyCellOffset # HCELL_NULL
                           THEN CmiRemoveSubKey(@, ko.KeyCellOffset) ELSE @,
               !.fault = @ \/ dangling]

\* the root key object is permanent: its references are not counted
ObReferenceObject(w, o) ==
  IF o = RootKey THEN w ELSE [w EXCEPT !.KeyObject[o].PointerCount = @ + 1]

\* the last reference runs the delete procedure; a dereference of freed
\* memory is a fault
ObDereferenceObject(w, o) ==
  LET called == [w EXCEPT !.dereferenced = @ + 1]
  IN IF o = RootKey THEN called
     ELSE IF ~w.KeyObject[o].Allocated THEN [called EXCEPT !.fault = TRUE]
     ELSE IF w.KeyObject[o].PointerCount > 1
       THEN [called EXCEPT !.KeyObject[o].PointerCount = @ - 1]
     ELSE CmiObjectDelete(called, o)

FreeHandles(w) == {h \in 1..budget.Handles : w.HandleTable[h] = NoObject}

\* ExCreateHandle and the handle count: the first handle of an object
\* references it
CmpCreateHandle(w, o, h) ==
  LET counted == [w EXCEPT !.HandleTable[h] = o,
                           !.KeyObject[o].HandleCount = @ + 1]
  IN IF w.KeyObject[o].HandleCount = 0 THEN ObReferenceObject(counted, o)
     ELSE counted

\* NtClose: the last handle of an object gives its reference back
CloseHandle(w, h) ==
  LET o == w.HandleTable[h]
      counted == [w EXCEPT !.HandleTable[h] = NoObject,
                           !.KeyObject[o].HandleCount = @ - 1]
  IN IF w.KeyObject[o].HandleCount = 1 THEN ObDereferenceObject(counted, o)
     ELSE counted

(***************************************************************************)
(* The namespace walk.                                                     *)
(***************************************************************************)
\* the subkeys of a key cell: the stable list, then the volatile list
SubKeys(cells, c) ==
  cells[c].SubKeyLists[HvStable] \o cells[c].SubKeyLists[HvVolatile]

\* the first subkey of c with the name, or HCELL_NULL
CmiScanForSubKey(cells, c, name) ==
  LET kids == SubKeys(cells, c)
      hits == {i \in 1..Len(kids) : cells[kids[i]].Name = name}
  IN IF hits = {} THEN HCELL_NULL ELSE kids[Least(hits)]

\* the characters of q before its first backslash
ComponentLen(q) ==
  LET stops == {i \in 1..Len(q) : q[i] = Backslash}
  IN IF stops = {} THEN Len(q) ELSE Least(stops) - 1

\* follow the name from key cell c, one component after one separator at a
\* time; stops at the first component that names no subkey
RECURSIVE CmiWalk(_, _, _)
CmiWalk(cells, c, p) ==
  IF p = <<>> THEN [cell |-> c, rest |-> <<>>]
  ELSE LET q == IF Head(p) = Backslash THEN Tail(p) ELSE p
           n == ComponentLen(q)
           kid == CmiScanForSubKey(cells, c, SubSeq(q, 1, n))
       IN IF kid = HCELL_NULL THEN [cell |-> c, rest |-> p]
          ELSE CmiWalk(cells, kid, SubSeq(q, n + 1, Len(q)))

KeyObjectsOf(w, c) ==
  {o \in ObjIds : w.KeyObject[o].Allocated /\ w.KeyObject[o].KeyCellOffset = c}

FreeObjects(w) == {o \in ObjIds : ~w.KeyObject[o].Allocated}

\* CmFindObject: the key object the name leads to, referenced, and the part
\* of the name that names no existing key.  A key without a key object gets
\* one, with its keep-alive reference.
CmFindObject(w, name) ==
  LET r == CmiWalk(w.Cells, RootCell, name)
      objs == KeyObjectsOf(w, r.cell)
      k == Least(FreeObjects(w))
      parents == KeyObjectsOf(w, w.Cells[r.cell].Parent)
      failed == [Status |-> STATUS_UNSUCCESSFUL, w |-> w, Object |-> NoObject,
                 RemainingPath |-> <<>>]
  IN IF objs # {}
       THEN [Status |-> STATUS_SUCCESS, w |-> ObReferenceObject(w, Least(objs)),
             Object |-> Least(objs), RemainingPath |-> r.rest]
     ELSE IF FreeObjects(w) = {} \/ parents = {} THEN failed
     ELSE [Status |-> STATUS_SUCCESS,
           w |-> [w EXCEPT !.KeyObject[k] =
                    [Allocated |-> TRUE, KeyCellOffset |-> r.cell,
                     ParentKey |-> Least(parents), Name |-> w.Cells[r.cell].Name,
                     Flags |-> {}, RegistryHive |-> SystemHive,
                     PointerCount |-> 2, HandleCount |-> 0, Linked |-> TRUE,
                     Refused |-> FALSE]],
           Object |-> k, RemainingPath |-> r.rest]

(***************************************************************************)
(* Dispatcher frames.                                                      *)
(***************************************************************************)
NoStatus == "none"
KeyBasicInformation == "KeyBasicInformation"
KeyNodeInformation == "KeyNodeInformation"
KeyFullInformation == "KeyFullInformation"
KeyNameInformation == "KeyNameInformation"
KeyValueBasicInformation == "KeyValueBasicInformation"
KeyValuePartialInformation == "KeyValuePartialInformation"
KeyValueFullInformation == "KeyValueFullInformation"
KeyWriteTimeInformation == "KeyWriteTimeInformation"
\* an information class no dispatcher knows
KeyNoInformation == "KeyNoInformation"
\* sizeof(KEY_WRITE_TIME_INFORMATION): one LARGE_INTEGER
SizeofKEY_WRITE_TIME_INFORMATION == 8

\* the locals of a dispatcher call, with the history of its callback and
\* lock use
NoCall ==
  [pc |-> "none", KeyHandle |-> NoHandle, KeyObject |-> NoObject,
   Object |-> NoObject, Status |-> STATUS_SUCCESS, ObjectName |-> <<>>,
   RemainingPath |-> <<>>, Start |-> 0, CreateOptions |-> REG_OPTION_NON_VOLATILE,
   CapturedClass |-> 0, SubKeyStatus |-> NoStatus,
   Index |-> 0, hKey |-> NoHandle, Disposition |-> NoStatus,
   KeyInformationClass |-> KeyBasicInformation, Length |-> 0, ResultLength |-> 0,
   SubKeyCell |-> HCELL_NULL, ValueName |-> "", Type |-> "REG_NONE",
   SetUpBoot |-> FALSE, BufferLength |-> 0,
   DataSize |-> 0, Data |-> <<>>, ValueList |-> <<>>, LastWriteTime |-> 0,
   Info |-> <<>>, referenced |-> FALSE, dereferenced |-> 0, sync |-> FALSE,
   preCalls |-> 0, preStatus |-> NoStatus, postCalls |-> 0, postStatus |-> NoStatus,
   postObject |-> NoObject, locked |-> FALSE, critical |-> 0,
   before |-> <<>>]

\* what a call finds when it starts
Snapshot == [Cells |-> Cells, KeyObject |-> KeyObject, HandleTable |-> HandleTable]

\* the frame of a call that starts with the pre-callback
EnterCall(f) == [f EXCEPT !.pc = "pre", !.preCalls = 1, !.before = Snapshot]

\* the frame when the post-callback is called with PostInfo.Status and
\* PostInfo.Object
PostCallback(f, status, object) ==
  [f EXCEPT !.postCalls = @ + 1, !.postStatus = status, !.postObject = object]

\* CmiCallRegisteredCallbacks is entered by the dispatcher of thread t
Invoke(t) == [inv EXCEPT ![t] = [NoInv EXCEPT !.pc = "lock", !.first = regCount]]

\* the world and the frame a step leaves behind
Commit(t, w, f) ==
  /\ KeyObject' = w.KeyObject
  /\ Cells' = w.Cells
  /\ HandleTable' = w.HandleTable
  /\ fault' = w.fault
  /\ call' = [call EXCEPT ![t] = [f EXCEPT !.dereferenced = @ + w.dereferenced]]

FreeLock == [Exclusive |-> NoThread, Shared |-> {}]

\* KeEnterCriticalRegion; ExAcquireResourceExclusiveLite(&CmiRegistryLock, TRUE)
AcquireExclusive(t) ==
  /\ call[t].pc = "lock"
  /\ CmiRegistryLock = FreeLock
  /\ CmiRegistryLock' = [CmiRegistryLock EXCEPT !.Exclusive = t]
  /\ call' = [call EXCEPT ![t].pc = "locked", ![t].locked = TRUE,
                          ![t].critical = @ + 1]

\* ExReleaseResourceLite(&CmiRegistryLock); KeLeaveCriticalRegion
Released(f) == [f EXCEPT !.critical = @ - 1]

HoldsRegistryLock(t) ==
  CmiRegistryLock.Exclusive = t \/ t \in CmiRegistryLock.Shared

(***************************************************************************)
(* NtCreateKey                                                             *)
(***************************************************************************)
\* Start: one past the buffer when the remaining path begins with a backslash
StartOf(rp) == IF rp[1] = Backslash THEN 1 ELSE 0

\* mutant: a trailing backslash is kept
StripTrailingSkipped(rp) == rp

\* the remaining path without its trailing backslash
StripTrailing(rp) ==
  IF rp[Len(rp)] = Backslash THEN SubSeq(rp, 1, Len(rp) - 1) ELSE rp

\* the loop over Buffer[1] .. Buffer[Length - 1] finds a backslash
ContainsTree(rp) == \E i \in 1..(Len(rp) - 1) : rp[i + 1] = Backslash

\* KeyObject->Name: the remaining path itself, or the string at Start
KeyNameOf(rp, start) == IF start = 0 THEN rp ELSE SubSeq(rp, start + 1, Len(rp))

\* the name CmiAddSubKey gives the new key cell
CellNameOf(rp) ==
  IF rp # <<>> /\ Head(rp) = Backslash THEN Tail(rp) ELSE rp

StorageOf(options) ==
  IF options = REG_OPTION_VOLATILE THEN HvVolatile ELSE HvStable

FreeCells(w) == {c \in CellIds : ~w.Cells[c].InUse}

KeysInUse(w) == Cardinality({c \in CellIds : w.Cells[c].InUse}) - 1

\* a character that does not fit in one byte, and a key name made of it
WideChar == "W"
REG_KEY_NAME_PACKED == "REG_KEY_NAME_PACKED"

\* the name is stored with one byte for each character when every character
\* fits in one byte
CmiIsKeyNamePackable(name) == \A i \in DOMAIN name : name[i] # WideChar

\* CmiAddSubKey: a new key cell in the storage class of the options, linked
\* at the end of the parent's subkey list of that class; class is the length
\* in bytes of the class string
CmiAddSubKey(w, parent, k, name, class, options) ==
  LET c == Least(FreeCells(w))
      p == w.KeyObject[parent].KeyCellOffset
      s == StorageOf(options)
  IN [w EXCEPT !.Cells[c] = [FreeCell EXCEPT !.InUse = TRUE, !.Name = name,
                                            !.Storage = s, !.ClassSize = class,
                                            !.Flags = IF CmiIsKeyNamePackable(name)
                                                        THEN {REG_KEY_NAME_PACKED}
                                                      ELSE {}],
               !.Cells[p].SubKeyCounts[s] = @ + 1,
               !.Cells[p].SubKeyLists[s] = Append(@, c),
               !.KeyObject[k].KeyCellOffset = c]

\* the status of a CmiAddSubKey that could not allocate the key cell
CmiAddSubKey_Failed == STATUS_INSUFFICIENT_RESOURCES

NtCreateKey_Call(t, ObjectName, CreateOptions, Class) ==
  /\ pc[t] = "idle"
  /\ ~fault
  /\ \A o \in ObjIds : KeyObject[o].PointerCount < MaxPointerCount
  /\ pc' = [pc EXCEPT ![t] = "NtCreateKey"]
  /\ call' = [call EXCEPT ![t] = EnterCall([NoCall EXCEPT
                                   !.ObjectName = ObjectName,
                                   !.CreateOptions = CreateOptions,
                                   !.CapturedClass = Class])]
  /\ inv' = Invoke(t)
  /\ UNCHANGED <<CmiCallbackHead, CmiCallbackLock, Callback, regId, regCount, unregDone,
                 reg, unr, CmiRegistryLock, Cells, KeyObject, HandleTable, fault,
                 budget, CmiRegistryInitialized, bootWork>>

\* the frame and the world after the key object of a new key was created
\* and inserted: lines 453-495
NtCreateKey_NewObject(t, w, f, created, inserted) ==
  LET k == Least(FreeObjects(w))
      h == Least(FreeHandles(w))
      made == [w EXCEPT !.KeyObject[k] =
                 [FreeObject EXCEPT !.Allocated = TRUE, !.PointerCount = 1]]
      handled == CmpCreateHandle(made, k, h)
      filled == [handled EXCEPT
                   !.KeyObject[k].ParentKey = f.Object,
                   !.KeyObject[k].RegistryHive = w.KeyObject[f.Object].RegistryHive,
                   !.KeyObject[k].Flags = {}]
  IN IF ~created
       THEN /\ Commit(t, w, PostCallback([f EXCEPT !.pc = "cleanup",
                        !.Status = STATUS_INSUFFICIENT_RESOURCES],
                      STATUS_INSUFFICIENT_RESOURCES, NoObject))
            /\ inv' = Invoke(t)
     ELSE IF ~inserted
       THEN /\ Commit(t, ObDereferenceObject(made, k),
                      PostCallback([f EXCEPT !.pc = "cleanup",
                        !.Status = STATUS_INSUFFICIENT_RESOURCES],
                      STATUS_INSUFFICIENT_RESOURCES, NoObject))
            /\ inv' = Invoke(t)
     ELSE /\ Commit(t, filled, [f EXCEPT !.pc = "lock", !.KeyObject = k, !.hKey = h])
          /\ inv' = [inv EXCEPT ![t] = NoInv]

\* the handle CmpCreateHandle returns, NoHandle when the table is full
NewHandle(w) == IF FreeHandles(w) = {} THEN NoHandle ELSE Least(FreeHandles(w))

\* what is read from hKey: the handle when one was created, anything when
\* the variable was never written
ReadHandle(h) == IF h = NoHandle THEN Handles \cup {NoHandle} ELSE {h}

\* the pre-callback has returned: lines 360-495, up to the next callback or
\* the registry lock
NtCreateKey_Find(t) ==
  /\ pc[t] = "NtCreateKey"
  /\ call[t].pc = "pre"
  /\ inv[t].pc = "ret"
  /\ LET f == [call[t] EXCEPT !.Status = inv[t].Status, !.preStatus = inv[t].Status]
         found == CmFindObject(World, f.ObjectName)
         w == found.w
         o == found.Object
         g == [f EXCEPT !.Object = o, !.RemainingPath = found.RemainingPath]
         rp == StripTrailing(found.RemainingPath)
     IN IF ~NT_SUCCESS(f.Status)
          THEN /\ Commit(t, World, PostCallback([f EXCEPT !.pc = "cleanup"],
                                                f.Status, NoObject))
               /\ inv' = Invoke(t)
        ELSE IF ~NT_SUCCESS(found.Status)
          THEN /\ Commit(t, w, PostCallback([f EXCEPT !.pc = "cleanup",
                                               !.Status = found.Status],
                                            found.Status, NoObject))
               /\ inv' = Invoke(t)
        ELSE IF found.RemainingPath = <<>>
          THEN IF KO_MARKED_FOR_DELETE \in w.KeyObject[o].Flags
                 THEN /\ Commit(t, w, PostCallback([g EXCEPT !.pc = "cleanup",
                                     !.Status = STATUS_UNSUCCESSFUL],
                                   STATUS_UNSUCCESSFUL, NoObject))
                      /\ inv' = Invoke(t)
                 ELSE LET h == NewHandle(w)
                          st == IF h = NoHandle THEN STATUS_UNSUCCESSFUL
                                ELSE STATUS_SUCCESS
                      IN /\ Commit(t, IF h = NoHandle THEN w ELSE CmpCreateHandle(w, o, h),
                                   PostCallback([g EXCEPT !.pc = "opened", !.Status = st,
                                                          !.hKey = h],
                                                st, NoObject))
                         /\ inv' = Invoke(t)
        ELSE IF ContainsTree(rp)
          THEN /\ Commit(t, w, PostCallback([g EXCEPT !.pc = "cleanup",
                              !.Start = StartOf(found.RemainingPath),
                              !.RemainingPath = rp,
                              !.Status = STATUS_OBJECT_NAME_NOT_FOUND],
                            STATUS_OBJECT_NAME_NOT_FOUND, NoObject))
               /\ inv' = Invoke(t)
        ELSE \E created \in {c \in BOOLEAN : c => FreeObjects(w) # {}} :
             \E inserted \in {i \in BOOLEAN : i => FreeHandles(w) # {}} :
               NtCreateKey_NewObject(t, w, [g EXCEPT !.RemainingPath = rp,
                                              !.Start = StartOf(found.RemainingPath)],
                                     created, inserted)
  /\ UNCHANGED <<CmiCallbackHead, CmiCallbackLock, Callback, regId, regCount, unregDone,
                 pc, reg, unr, CmiRegistryLock, budget, CmiRegistryInitialized, bootWork>>

NtCreateKey_Acquire(t) ==
  /\ pc[t] = "NtCreateKey"
  /\ AcquireExclusive(t)
  /\ UNCHANGED <<cbvars, Cells, KeyObject, HandleTable, fault, budget, CmiRegistryInitialized, bootWork>>

\* under the registry lock: lines 501-548, and the call of the post-callback;
\* SubKeyStatus keeps what CmiAddSubKey returned at line 504 when it failed
NtCreateKey_Insert(t) ==
  /\ pc[t] = "NtCreateKey"
  /\ call[t].pc = "locked"
  /\ LET f == call[t]
         k == f.KeyObject
         listed == [World EXCEPT !.KeyObject[k].Linked = TRUE]
         added == CmiAddSubKey(listed, f.Object, k, CellNameOf(f.RemainingPath),
                               f.CapturedClass, f.CreateOptions)
         named == [added EXCEPT
                     !.KeyObject[k].Name = KeyNameOf(f.RemainingPath, f.Start),
                     !.Cells[added.KeyObject[k].KeyCellOffset].Parent =
                        added.KeyObject[f.Object].KeyCellOffset]
     IN \E ok \in {b \in BOOLEAN : b => (FreeCells(World) # {} /\ KeysInUse(World) < budget.Keys)} :
          IF ok
            THEN Commit(t, named, PostCallback(Released([f EXCEPT !.pc = "created"]),
                                              f.Status, k))
            ELSE Commit(t, ObDereferenceObject(listed, k),
                        PostCallback(Released([f EXCEPT !.pc = "cleanup",
                                                 !.SubKeyStatus = CmiAddSubKey_Failed,
                                                 !.Status = STATUS_UNSUCCESSFUL]),
                                     STATUS_UNSUCCESSFUL, NoObject))
  /\ CmiRegistryLock' = FreeLock
  /\ inv' = Invoke(t)
  /\ UNCHANGED <<CmiCallbackHead, CmiCallbackLock, Callback, regId, regCount, unregDone,
                 pc, reg, unr, budget, CmiRegistryInitialized, bootWork>>

\* the post-callback has returned: CmiSyncHives is next on the created path,
\* SuccessReturn on the opened path, Cleanup on the others
NtCreateKey_PostDone(t) ==
  /\ pc[t] = "NtCreateKey"
  /\ call[t].pc \in {"created", "opened", "cleanup"}
  /\ inv[t].pc = "ret"
  /\ inv' = [inv EXCEPT ![t] = NoInv]
  /\ IF call[t].pc = "created"
       THEN call' = [call EXCEPT ![t].pc = "sync"]
     ELSE IF call[t].pc = "opened"
       THEN \E h \in ReadHandle(call[t].hKey) :
              call' = [call EXCEPT ![t].pc = "ret", ![t].KeyHandle = h,
                                   ![t].Disposition = REG_OPENED_EXISTING_KEY]
     ELSE call' = [call EXCEPT ![t].pc = "ret"]
  /\ UNCHANGED <<CmiCallbackHead, CmiCallbackLock, Callback, regId, regCount, unregDone,
                 pc, reg, unr, CmiRegistryLock, Cells, KeyObject, HandleTable, fault,
                 budget, CmiRegistryInitialized, bootWork>>

\* CmiSyncHives, then SuccessReturn
NtCreateKey_Sync(t) ==
  /\ pc[t] = "NtCreateKey"
  /\ call[t].pc = "sync"
  /\ call' = [call EXCEPT ![t].pc = "ret", ![t].KeyHandle = call[t].hKey,
                          ![t].Disposition = REG_CREATED_NEW_KEY]
  /\ UNCHANGED <<cbvars, CmiRegistryLock, Cells, KeyObject, HandleTable, fault,
                 budget, CmiRegistryInitialized, bootWork>>

\* a dispatcher returns to its caller
DispatcherReturn(t) ==
  /\ pc[t] \notin {"idle", "CmRegisterCallback", "CmUnRegisterCallback",
                   "CmiCallRegisteredCallbacks"}
  /\ call[t].pc = "ret"
  /\ pc' = [pc EXCEPT ![t] = "idle"]
  /\ call' = [call EXCEPT ![t] = NoCall]
  /\ UNCHANGED <<CmiCallbackHead, CmiCallbackLock, Callback, regId, regCount, unregDone,
                 reg, unr, inv, CmiRegistryLock, Cells, KeyObject, HandleTable, fault,
                 budget, CmiRegistryInitialized, bootWork>>

(***************************************************************************)
(* NtOpenKey                                                               *)
(***************************************************************************)
\* lines 1370-1376: a trailing backslash of the name is cut off
NtOpenKey_Name(name) ==
  IF name # <<>> /\ name[Len(name)] = Backslash
    THEN SubSeq(name, 1, Len(name) - 1) ELSE name

NtOpenKey_Call(t, ObjectName) ==
  /\ pc[t] = "idle"
  /\ ~fault
  /\ pc' = [pc EXCEPT ![t] = "NtOpenKey"]
  /\ call' = [call EXCEPT ![t] = EnterCall([NoCall EXCEPT
                                   !.ObjectName = NtOpenKey_Name(ObjectName)])]
  /\ inv' = Invoke(t)
  /\ UNCHANGED <<CmiCallbackHead, CmiCallbackLock, Callback, regId, regCount, unregDone,
                 reg, unr, CmiRegistryLock, Cells, KeyObject, HandleTable, fault,
                 budget, CmiRegistryInitialized, bootWork>>

\* the pre-callback has returned: lines 1381-1438, up to the post-callback
NtOpenKey_Find(t) ==
  /\ pc[t] = "NtOpenKey"
  /\ call[t].pc = "pre"
  /\ inv[t].pc = "ret"
  /\ LET f == [call[t] EXCEPT !.Status = inv[t].Status, !.preStatus = inv[t].Status]
         found == CmFindObject(World, f.ObjectName)
         w == found.w
         o == found.Object
         g == [f EXCEPT !.Object = o, !.RemainingPath = found.RemainingPath]
         h == NewHandle(w)
         st == IF ~NT_SUCCESS(found.Status) THEN STATUS_INVALID_HANDLE
               ELSE IF found.RemainingPath # <<>> THEN STATUS_OBJECT_NAME_NOT_FOUND
               ELSE IF KO_MARKED_FOR_DELETE \in w.KeyObject[o].Flags
                 THEN STATUS_UNSUCCESSFUL
               ELSE IF h = NoHandle THEN STATUS_UNSUCCESSFUL
               ELSE STATUS_SUCCESS
     IN IF ~NT_SUCCESS(f.Status)
          THEN Commit(t, World, PostCallback([f EXCEPT !.pc = "cleanup"],
                                             f.Status, NoObject))
          ELSE Commit(t, IF NT_SUCCESS(st) THEN CmpCreateHandle(w, o, h) ELSE w,
                      PostCallback([g EXCEPT !.pc = "post", !.Status = st,
                                             !.hKey = IF NT_SUCCESS(st) THEN h ELSE NoHandle],
                                   st, IF NT_SUCCESS(st) THEN o ELSE NoObject))
  /\ inv' = Invoke(t)
  /\ UNCHANGED <<CmiCallbackHead, CmiCallbackLock, Callback, regId, regCount, unregDone,
                 pc, reg, unr, CmiRegistryLock, budget, CmiRegistryInitialized, bootWork>>

\* the post-callback has returned: lines 1386-1388, or 1439-1459
NtOpenKey_PostDone(t) ==
  /\ pc[t] = "NtOpenKey"
  /\ call[t].pc \in {"post", "cleanup"}
  /\ inv[t].pc = "ret"
  /\ inv' = [inv EXCEPT ![t] = NoInv]
  /\ LET f == call[t]
         w == IF f.pc = "post" /\ f.Object # NoObject
                THEN ObDereferenceObject(World, f.Object) ELSE World
     IN Commit(t, w, [f EXCEPT !.pc = "ret",
                               !.KeyHandle = IF NT_SUCCESS(f.Status) THEN f.hKey
                                             ELSE NoHandle])
  /\ UNCHANGED <<CmiCallbackHead, CmiCallbackLock, Callback, regId, regCount, unregDone,
                 pc, reg, unr, CmiRegistryLock, budget, CmiRegistryInitialized, bootWork>>

(***************************************************************************)
(* NtClose                                                                 *)
(***************************************************************************)
NtClose(t, h) ==
  /\ pc[t] = "idle"
  /\ ~fault
  /\ HandleTable[h] # NoObject
  /\ LET w == CloseHandle(World, h)
     IN /\ KeyObject' = w.KeyObject
        /\ Cells' = w.Cells
        /\ HandleTable' = w.HandleTable
        /\ fault' = w.fault
  /\ UNCHANGED <<cbvars, CmiRegistryLock, budget, CmiRegistryInitialized, bootWork, call>>

(***************************************************************************)
(* The dispatchers that work on a key handle.                              *)
(***************************************************************************)
\* the dispatchers that take a key handle and call the callbacks
HandleDispatchers ==
  {"NtDeleteKey", "NtEnumerateKey", "NtEnumerateValueKey", "NtQueryKey",
   "NtQueryValueKey", "NtSetValueKey", "NtDeleteValueKey",
   "NtQueryMultipleValueKey", "NtSetInformationKey"}

\* those that take the registry lock exclusively
ExclusiveDispatchers ==
  {"NtDeleteKey", "NtSetValueKey", "NtDeleteValueKey", "NtSetInformationKey"}

\* ObReferenceObjectByHandle, then the pre-callback; f holds the arguments
HandleCall(t, name, f) ==
  /\ pc[t] = "idle"
  /\ ~fault
  /\ pc' = [pc EXCEPT ![t] = name]
  /\ IF HandleTable[f.KeyHandle] = NoObject
       THEN /\ call' = [call EXCEPT ![t] = [f EXCEPT !.pc = "ret",
                                              !.Status = STATUS_INVALID_HANDLE,
                                              !.before = Snapshot]]
            /\ UNCHANGED <<KeyObject, inv>>
       ELSE /\ call' = [call EXCEPT ![t] =
                          EnterCall([f EXCEPT !.KeyObject = HandleTable[f.KeyHandle],
                                              !.referenced = TRUE])]
            /\ KeyObject' = ObReferenceObject(World, HandleTable[f.KeyHandle]).KeyObject
            /\ inv' = Invoke(t)
  /\ UNCHANGED <<CmiCallbackHead, CmiCallbackLock, Callback, regId, regCount, unregDone,
                 reg, unr, CmiRegistryLock, Cells, HandleTable, fault, budget, CmiRegistryInitialized, bootWork>>

\* mutant: the status of the pre-callback is not looked at
HandlePreDoneIgnored(t) ==
  /\ pc[t] \in HandleDispatchers
  /\ call[t].pc = "pre"
  /\ inv[t].pc = "ret"
  /\ call' = [call EXCEPT ![t].pc = "lock", ![t].Status = inv[t].Status,
                          ![t].preStatus = inv[t].Status]
  /\ inv' = [inv EXCEPT ![t] = NoInv]
  /\ UNCHANGED <<CmiCallbackHead, CmiCallbackLock, Callback, regId, regCount, unregDone,
                 pc, reg, unr, CmiRegistryLock, Cells, KeyObject, HandleTable, fault,
                 budget, CmiRegistryInitialized, bootWork>>

\* the pre-callback has returned: on failure the post-callback is called
\* with its status, else the registry lock is next
HandlePreDone(t) ==
  /\ pc[t] \in HandleDispatchers
  /\ call[t].pc = "pre"
  /\ inv[t].pc = "ret"
  /\ IF ~NT_SUCCESS(inv[t].Status)
       THEN /\ call' = [call EXCEPT ![t] =
                          PostCallback([call[t] EXCEPT !.pc = "failed",
                                                       !.Status = inv[t].Status,
                                                       !.preStatus = inv[t].Status],
                                       inv[t].Status, call[t].KeyObject)]
            /\ inv' = Invoke(t)
       ELSE /\ call' = [call EXCEPT ![t].pc = "lock", ![t].Status = inv[t].Status,
                                    ![t].preStatus = inv[t].Status]
            /\ inv' = [inv EXCEPT ![t] = NoInv]
  /\ UNCHANGED <<CmiCallbackHead, CmiCallbackLock, Callback, regId, regCount, unregDone,
                 pc, reg, unr, CmiRegistryLock, Cells, KeyObject, HandleTable, fault,
                 budget, CmiRegistryInitialized, bootWork>>

\* after the post-callback of a failed pre-callback: ObDereferenceObject and
\* return of the status
HandleFailed(t) ==
  /\ pc[t] \in HandleDispatchers
  /\ call[t].pc = "failed"
  /\ inv[t].pc = "ret"
  /\ inv' = [inv EXCEPT ![t] = NoInv]
  /\ Commit(t, ObDereferenceObject(World, call[t].KeyObject),
            [call[t] EXCEPT !.pc = "ret", !.referenced = FALSE])
  /\ UNCHANGED <<CmiCallbackHead, CmiCallbackLock, Callback, regId, regCount, unregDone,
                 pc, reg, unr, CmiRegistryLock, budget, CmiRegistryInitialized, bootWork>>

\* mutant: NtSetInformationKey returns the status of what it did
HandlePostDoneStatusKept(t) ==
  /\ pc[t] \in HandleDispatchers
  /\ call[t].pc = "post"
  /\ inv[t].pc = "ret"
  /\ inv' = [inv EXCEPT ![t] = NoInv]
  /\ Commit(t, IF call[t].referenced
                 THEN ObDereferenceObject(World, call[t].KeyObject) ELSE World,
            [call[t] EXCEPT !.pc = IF call[t].sync THEN "sync" ELSE "ret",
                            !.referenced = FALSE])
  /\ UNCHANGED <<CmiCallbackHead, CmiCallbackLock, Callback, regId, regCount, unregDone,
                 pc, reg, unr, CmiRegistryLock, budget, CmiRegistryInitialized, bootWork>>

\* the post-callback has returned: the reference taken through the handle
\* is given back unless it was given back before the post-callback
\* (NtEnumerateValueKey); CmiSyncHives or the return is next.
\* NtSetInformationKey returns STATUS_SUCCESS whatever it did (line 2753)
HandlePostDone(t) ==
  /\ pc[t] \in HandleDispatchers
  /\ call[t].pc = "post"
  /\ inv[t].pc = "ret"
  /\ inv' = [inv EXCEPT ![t] = NoInv]
  /\ Commit(t, IF call[t].referenced
                 THEN ObDereferenceObject(World, call[t].KeyObject) ELSE World,
            [call[t] EXCEPT !.pc = IF call[t].sync THEN "sync" ELSE "ret",
                            !.referenced = FALSE,
                            !.Status = IF pc[t] = "NtSetInformationKey"
                                         THEN STATUS_SUCCESS ELSE @])
  /\ UNCHANGED <<CmiCallbackHead, CmiCallbackLock, Callback, regId, regCount, unregDone,
                 pc, reg, unr, CmiRegistryLock, budget, CmiRegistryInitialized, bootWork>>

\* KeEnterCriticalRegion; ExAcquireResourceSharedLite(&CmiRegistryLock, TRUE)
AcquireShared(t) ==
  /\ call[t].pc = "lock"
  /\ CmiRegistryLock.Exclusive = NoThread
  /\ CmiRegistryLock' = [CmiRegistryLock EXCEPT !.Shared = @ \cup {t}]
  /\ call' = [call EXCEPT ![t].pc = "locked", ![t].locked = TRUE,
                          ![t].critical = @ + 1]

\* mutant: the registry lock is kept
ReleaseLockSkipped(t) == UNCHANGED CmiRegistryLock

\* ExReleaseResourceLite(&CmiRegistryLock)
ReleaseLock(t) ==
  CmiRegistryLock' = [Exclusive |-> IF CmiRegistryLock.Exclusive = t THEN NoThread
                                    ELSE CmiRegistryLock.Exclusive,
                      Shared |-> CmiRegistryLock.Shared \ {t}]

\* the lock is taken after a successful pre-callback, exclusively by the
\* dispatchers that change the hive; NtSetInformationKey takes it only for a
\* request it accepts (lines 2713-2726)
HandleAcquire(t) ==
  /\ pc[t] \in HandleDispatchers
  /\ pc[t] = "NtSetInformationKey" =>
        /\ call[t].KeyInformationClass = KeyWriteTimeInformation
        /\ call[t].Length = SizeofKEY_WRITE_TIME_INFORMATION
  /\ IF pc[t] \in ExclusiveDispatchers THEN AcquireExclusive(t) ELSE AcquireShared(t)
  /\ UNCHANGED <<cbvars, Cells, KeyObject, HandleTable, fault, budget, CmiRegistryInitialized, bootWork>>

\* CmiSyncHives after the post-callback, then the return
HandleSync(t) ==
  /\ pc[t] \in HandleDispatchers
  /\ call[t].pc = "sync"
  /\ call' = [call EXCEPT ![t].pc = "ret"]
  /\ UNCHANGED <<cbvars, CmiRegistryLock, Cells, KeyObject, HandleTable, fault,
                 budget, CmiRegistryInitialized, bootWork>>

\* the key cell of the key object a dispatcher works on
KeyCellOf(t) == KeyObject[call[t].KeyObject].KeyCellOffset

\* KeyObject->KeyCell is read under the lock although NtCreateKey never set
\* it (the handle of a key whose CmiAddSubKey failed): the read is undefined
KeyCellFault(t) ==
  /\ call[t].pc = "locked"
  /\ call[t].KeyObject # NoObject
  /\ KeyCellOf(t) = HCELL_NULL
  /\ ~fault
  /\ fault' = TRUE
  /\ UNCHANGED <<cbvars, CmiRegistryLock, Cells, KeyObject, HandleTable, budget, CmiRegistryInitialized, bootWork, call>>

(***************************************************************************)
(* NtDeleteKey                                                             *)
(***************************************************************************)
NtDeleteKey_Call(t, h) == HandleCall(t, "NtDeleteKey", [NoCall EXCEPT !.KeyHandle = h])

\* mutant: only the stable subkeys are counted
HasSubKeysStableOnly(cell) == cell.SubKeyCounts[HvStable] # 0

\* the subkey check of lines 634-635
HasSubKeys(cell) ==
  cell.SubKeyCounts[HvStable] # 0 \/ cell.SubKeyCounts[HvVolatile] # 0

\* mutant: the reference of the mount is not given back
NtDeleteKey_DropKeepAliveOnly(w, o) ==
  LET dropped == ObDereferenceObject(w, o)
  IN IF ~dropped.KeyObject[o].Allocated THEN [dropped EXCEPT !.fault = TRUE]
     ELSE dropped

\* lines 653-656: the keep-alive reference goes, and one more when the key
\* is the root of a mounted hive; reading the hive of a freed object faults
NtDeleteKey_DropKeepAlive(w, o) ==
  LET dropped == ObDereferenceObject(w, o)
      ko == dropped.KeyObject[o]
  IN IF ~ko.Allocated THEN [dropped EXCEPT !.fault = TRUE]
     ELSE IF ~dropped.KeyObject[ko.ParentKey].Allocated
       THEN [dropped EXCEPT !.fault = TRUE]
     ELSE IF ko.RegistryHive # dropped.KeyObject[ko.ParentKey].RegistryHive
       THEN ObDereferenceObject(dropped, o)
     ELSE dropped

\* under the registry lock: lines 631-659, up to the post-callback
NtDeleteKey_Mark(t) ==
  /\ pc[t] = "NtDeleteKey"
  /\ call[t].pc = "locked"
  /\ KeyCellOf(t) # HCELL_NULL
  /\ LET f == call[t]
         o == f.KeyObject
         c == KeyObject[o].KeyCellOffset
         st == IF HasSubKeys(Cells[c]) THEN STATUS_CANNOT_DELETE ELSE STATUS_SUCCESS
         marked == IF st = STATUS_SUCCESS
                     THEN [World EXCEPT !.KeyObject[o].Flags = @ \cup {KO_MARKED_FOR_DELETE}]
                     ELSE [World EXCEPT !.KeyObject[o].Refused = TRUE]
     IN /\ Commit(t, NtDeleteKey_DropKeepAlive(marked, o),
                  PostCallback(Released([f EXCEPT !.pc = "post", !.Status = st]), st, o))
  /\ ReleaseLock(t)
  /\ inv' = Invoke(t)
  /\ UNCHANGED <<CmiCallbackHead, CmiCallbackLock, Callback, regId, regCount, unregDone,
                 pc, reg, unr, budget, CmiRegistryInitialized, bootWork>>

(***************************************************************************)
(* NtEnumerateKey                                                          *)
(***************************************************************************)
STATUS_BUFFER_TOO_SMALL == "STATUS_BUFFER_TOO_SMALL"
STATUS_BUFFER_OVERFLOW == "STATUS_BUFFER_OVERFLOW"

\* FIELD_OFFSET(KEY_BASIC_INFORMATION, Name[0]): LastWriteTime, TitleIndex,
\* NameLength
KeyBasicHeader == 16
\* FIELD_OFFSET(KEY_NODE_INFORMATION, Name[0]): LastWriteTime, TitleIndex,
\* ClassOffset, ClassLength, NameLength
KeyNodeHeader == 24
\* sizeof(KEY_NODE_INFORMATION): the header and Name[1], padded to the
\* alignment of LastWriteTime
SizeofKEY_NODE_INFORMATION == 32
\* sizeof(WCHAR)
SizeofWCHAR == 2
\* FIELD_OFFSET(KEY_FULL_INFORMATION, Class[0]): LastWriteTime, TitleIndex,
\* ClassOffset, ClassLength, SubKeys, MaxNameLen, MaxClassLen, Values,
\* MaxValueNameLen, MaxValueDataLen
KeyFullHeader == 44
\* a buffer that holds every answer of the model
MaxLength == 48

\* the bytes of a key name as reported: two for each character
NameSizeOf(cell) == 2 * Len(cell.Name)

NtEnumerateKey_Call(t, h, Index, KeyInformationClass, Length) ==
  HandleCall(t, "NtEnumerateKey",
             [NoCall EXCEPT !.KeyHandle = h, !.Index = Index,
                            !.KeyInformationClass = KeyInformationClass,
                            !.Length = Length])

\* CmiGetKeyFromHashByIndex: the entry of the hash table at the index
CmiGetKeyFromHashByIndex(HashTableBlock, BaseIndex) == HashTableBlock[BaseIndex + 1]

\* mutant: the index into the volatile list is not rebased
NtEnumerateKey_SubKeyUnbased(KeyCell, Index) ==
  LET Storage == IF Index >= KeyCell.SubKeyCounts[HvStable] THEN HvVolatile
                 ELSE HvStable
  IN IF Index >= KeyCell.SubKeyCounts[HvStable] + KeyCell.SubKeyCounts[HvVolatile]
       THEN HCELL_NULL
     ELSE IF Index >= Len(KeyCell.SubKeyLists[Storage]) THEN HCELL_NULL
     ELSE CmiGetKeyFromHashByIndex(KeyCell.SubKeyLists[Storage], Index)

\* lines 751-788: the subkey the index selects, HCELL_NULL when there is none
NtEnumerateKey_SubKey(KeyCell, Index) ==
  LET Storage == IF Index >= KeyCell.SubKeyCounts[HvStable] THEN HvVolatile
                 ELSE HvStable
      BaseIndex == IF Index >= KeyCell.SubKeyCounts[HvStable]
                     THEN Index - KeyCell.SubKeyCounts[HvStable] ELSE Index
  IN IF Index >= KeyCell.SubKeyCounts[HvStable] + KeyCell.SubKeyCounts[HvVolatile]
       THEN HCELL_NULL
     ELSE IF KeyCell.SubKeyLists[Storage] = <<>> THEN HCELL_NULL
     ELSE CmiGetKeyFromHashByIndex(KeyCell.SubKeyLists[Storage], BaseIndex)

\* SubKeyCell->NameSize: the bytes the name takes in the key cell
StoredNameSize(cell) ==
  IF REG_KEY_NAME_PACKED \in cell.Flags THEN Len(cell.Name) ELSE 2 * Len(cell.Name)

\* the bytes CmiCopyPackedName and RtlCopyMemory write for NameSize bytes of
\* the name: whole characters of a packed name, every byte of another
NameBytesCopied(cell, NameSize) ==
  IF REG_KEY_NAME_PACKED \in cell.Flags THEN 2 * (NameSize \div 2) ELSE NameSize

\* the largest member of a set of sizes, 0 for the empty set
Largest(S) == IF S = {} THEN 0 ELSE CHOOSE x \in S : \A y \in S : y <= x

CmiGetNumberOfSubKeys(KeyCell) ==
  KeyCell.SubKeyCounts[HvStable] + KeyCell.SubKeyCounts[HvVolatile]

CmiGetMaxNameLength(cells, KeyCell) ==
  Largest({NameSizeOf(cells[KeyCell.SubKeyLists[s][i]]) :
             <<s, i>> \in {x \in Storages \X (1..MaxKeys) :
                             x[2] <= Len(KeyCell.SubKeyLists[x[1]])}})

CmiGetMaxClassLength(cells, KeyCell) ==
  Largest({cells[KeyCell.SubKeyLists[s][i]].ClassSize :
             <<s, i>> \in {x \in Storages \X (1..MaxKeys) :
                             x[2] <= Len(KeyCell.SubKeyLists[x[1]])}})

CmiGetMaxValueNameLength(KeyCell) ==
  Largest({2 * Len(KeyCell.Values[i].Name) : i \in 1..Len(KeyCell.Values)})

CmiGetMaxValueDataLength(KeyCell) ==
  Largest({KeyCell.Values[i].DataSize : i \in 1..Len(KeyCell.Values)})

\* the KeyBasicInformation case: lines 793-838
NtEnumerateKey_Basic(SubKeyCell, Length) ==
  LET NameSize == NameSizeOf(SubKeyCell)
      fits == Length >= KeyBasicHeader
      Copied == IF fits /\ Length - KeyBasicHeader < NameSize
                  THEN Length - KeyBasicHeader ELSE NameSize
  IN [ResultLength |-> KeyBasicHeader + NameSize,
      Status |-> IF ~fits THEN STATUS_BUFFER_TOO_SMALL
                 ELSE IF Length - KeyBasicHeader < NameSize
                   THEN STATUS_BUFFER_OVERFLOW
                 ELSE STATUS_SUCCESS,
      Info |-> IF ~fits THEN <<>>
               ELSE [NameLength |-> NameSize,
                     Writes |-> {[What |-> "Header", At |-> 0, Size |-> KeyBasicHeader],
                                 [What |-> "Name", At |-> KeyBasicHeader,
                                  Size |-> NameBytesCopied(SubKeyCell, Copied)]}]]

\* mutant: the class string is not counted
NtEnumerateKey_NodeNameOnly(SubKeyCell, Length) ==
  LET NameSize == NameSizeOf(SubKeyCell)
  IN [ResultLength |-> KeyNodeHeader + NameSize,
      Status |-> IF Length < KeyNodeHeader THEN STATUS_BUFFER_TOO_SMALL
                 ELSE IF Length - KeyNodeHeader < NameSize THEN STATUS_BUFFER_OVERFLOW
                 ELSE STATUS_SUCCESS,
      Info |-> <<>>]

\* the KeyNodeInformation case: lines 849-914.  ClassOffset is counted from
\* sizeof(KEY_NODE_INFORMATION); the class is copied to Name + NameSize,
\* where Name points to WCHARs and NameSize is the one of the key cell
NtEnumerateKey_Node(SubKeyCell, Length) ==
  LET NameSize == NameSizeOf(SubKeyCell)
      ClassSize == SubKeyCell.ClassSize
      fits == Length >= KeyNodeHeader
      NameCopied == IF fits /\ Length - KeyNodeHeader < NameSize
                      THEN Length - KeyNodeHeader ELSE NameSize
      ClassCopied == IF ~fits \/ Length - KeyNodeHeader < NameSize THEN 0
                     ELSE IF Length - KeyNodeHeader - NameSize < ClassSize
                       THEN Length - KeyNodeHeader - NameSize
                     ELSE ClassSize
  IN [ResultLength |-> KeyNodeHeader + NameSize + ClassSize,
      Status |-> IF ~fits THEN STATUS_BUFFER_TOO_SMALL
                 ELSE IF Length - KeyNodeHeader < NameSize THEN STATUS_BUFFER_OVERFLOW
                 ELSE IF Length - KeyNodeHeader - NameSize < ClassSize
                   THEN STATUS_BUFFER_OVERFLOW
                 ELSE STATUS_SUCCESS,
      Info |-> IF ~fits THEN <<>>
               ELSE [ClassOffset |-> SizeofKEY_NODE_INFORMATION + NameSize,
                     ClassLength |-> SubKeyCell.ClassSize,
                     NameLength |-> NameSize,
                     Writes |->
                       {[What |-> "Header", At |-> 0, Size |-> KeyNodeHeader],
                        [What |-> "Name", At |-> KeyNodeHeader,
                         Size |-> NameBytesCopied(SubKeyCell, NameCopied)]}
                       \cup IF ClassCopied = 0 THEN {}
                            ELSE {[What |-> "Class",
                                   At |-> KeyNodeHeader
                                            + SizeofWCHAR * StoredNameSize(SubKeyCell),
                                   Size |-> ClassCopied]}]]

\* the KeyFullInformation case: lines 916-962.  KeyCell is the key cell of
\* KeyObject, the key under the handle
NtEnumerateKey_Full(KeyCell, SubKeyCell, cells, Length) ==
  LET ClassSize == SubKeyCell.ClassSize
      fits == Length >= KeyFullHeader
      ClassCopied == IF fits /\ Length - KeyFullHeader < ClassSize
                       THEN Length - KeyFullHeader ELSE ClassSize
  IN [ResultLength |-> KeyFullHeader + ClassSize,
      Status |-> IF ~fits THEN STATUS_BUFFER_TOO_SMALL
                 ELSE IF Length - KeyFullHeader < ClassSize THEN STATUS_BUFFER_OVERFLOW
                 ELSE STATUS_SUCCESS,
      Info |-> IF ~fits THEN <<>>
               ELSE [ClassLength |-> SubKeyCell.ClassSize,
                     SubKeys |-> CmiGetNumberOfSubKeys(KeyCell),
                     MaxNameLen |-> CmiGetMaxNameLength(cells, KeyCell),
                     MaxClassLen |-> CmiGetMaxClassLength(cells, KeyCell),
                     Values |-> Len(SubKeyCell.Values),
                     MaxValueNameLen |-> CmiGetMaxValueNameLength(SubKeyCell),
                     MaxValueDataLen |-> CmiGetMaxValueDataLength(SubKeyCell),
                     Writes |->
                       {[What |-> "Header", At |-> 0, Size |-> KeyFullHeader]}
                       \cup IF ClassCopied = 0 THEN {}
                            ELSE {[What |-> "Class", At |-> KeyFullHeader,
                                   Size |-> ClassCopied]}]]

\* the switch on KeyInformationClass: lines 795-967; any other class leaves
\* the status and *ResultLength as they were
NtEnumerateKey_Info(f, KeyCell, SubKeyCell, cells) ==
  CASE f.KeyInformationClass = KeyBasicInformation ->
         NtEnumerateKey_Basic(SubKeyCell, f.Length)
    [] f.KeyInformationClass = KeyNodeInformation ->
         NtEnumerateKey_Node(SubKeyCell, f.Length)
    [] f.KeyInformationClass = KeyFullInformation ->
         NtEnumerateKey_Full(KeyCell, SubKeyCell, cells, f.Length)
    [] OTHER -> [ResultLength |-> f.ResultLength, Status |-> STATUS_SUCCESS,
                 Info |-> f.Info]

\* mutant: the return with STATUS_NO_MORE_ENTRIES leaves the post-callback out
NtEnumerateKey_ReadNoPost(t) ==
  /\ pc[t] = "NtEnumerateKey"
  /\ call[t].pc = "locked"
  /\ KeyCellOf(t) # HCELL_NULL
  /\ LET f == call[t]
         KeyCell == Cells[KeyObject[f.KeyObject].KeyCellOffset]
         SubKeyCell == NtEnumerateKey_SubKey(KeyCell, f.Index)
         info == NtEnumerateKey_Info(f, KeyCell, Cells[SubKeyCell], Cells)
     IN IF SubKeyCell = HCELL_NULL
          THEN /\ call' = [call EXCEPT ![t] =
                            Released([f EXCEPT !.pc = "ret",
                                               !.Status = STATUS_NO_MORE_ENTRIES])]
               /\ UNCHANGED inv
          ELSE /\ call' = [call EXCEPT ![t] =
                            PostCallback(Released([f EXCEPT !.pc = "post",
                                                    !.Status = info.Status,
                                                    !.ResultLength = info.ResultLength,
                                                    !.Info = info.Info,
                                                    !.SubKeyCell = SubKeyCell]),
                                         info.Status, f.KeyObject)]
               /\ inv' = Invoke(t)
  /\ ReleaseLock(t)
  /\ UNCHANGED <<CmiCallbackHead, CmiCallbackLock, Callback, regId, regCount, unregDone,
                 pc, reg, unr, Cells, KeyObject, HandleTable, fault, budget, CmiRegistryInitialized, bootWork>>

\* under the registry lock: lines 748-973, up to the post-callback
NtEnumerateKey_Read(t) ==
  /\ pc[t] = "NtEnumerateKey"
  /\ call[t].pc = "locked"
  /\ KeyCellOf(t) # HCELL_NULL
  /\ LET f == call[t]
         KeyCell == Cells[KeyObject[f.KeyObject].KeyCellOffset]
         SubKeyCell == NtEnumerateKey_SubKey(KeyCell, f.Index)
         info == NtEnumerateKey_Info(f, KeyCell, Cells[SubKeyCell], Cells)
     IN call' = [call EXCEPT ![t] =
                   IF SubKeyCell = HCELL_NULL
                     THEN PostCallback(Released([f EXCEPT !.pc = "post",
                                                   !.Status = STATUS_NO_MORE_ENTRIES]),
                                       STATUS_NO_MORE_ENTRIES, f.KeyObject)
                     ELSE PostCallback(Released([f EXCEPT !.pc = "post",
                                                   !.Status = info.Status,
                                                   !.ResultLength = info.ResultLength,
                                                   !.Info = info.Info,
                                                   !.SubKeyCell = SubKeyCell]),
                                       info.Status, f.KeyObject)]
  /\ ReleaseLock(t)
  /\ inv' = Invoke(t)
  /\ UNCHANGED <<CmiCallbackHead, CmiCallbackLock, Callback, regId, regCount, unregDone,
                 pc, reg, unr, Cells, KeyObject, HandleTable, fault, budget, CmiRegistryInitialized, bootWork>>

(***************************************************************************)
(* Values of a key.                                                        *)
(***************************************************************************)
STATUS_INVALID_INFO_CLASS == "STATUS_INVALID_INFO_CLASS"
STATUS_NOT_IMPLEMENTED == "STATUS_NOT_IMPLEMENTED"
STATUS_INFO_LENGTH_MISMATCH == "STATUS_INFO_LENGTH_MISMATCH"
STATUS_ACCESS_VIOLATION == "STATUS_ACCESS_VIOLATION"

REG_NONE == "REG_NONE"
REG_SZ == "REG_SZ"
REG_LINK == "REG_LINK"
REG_KEY_LINK_CELL == "REG_KEY_LINK_CELL"
SymbolicLinkValue == "SymbolicLinkValue"

\* sizeof(HCELL_INDEX): data up to this size is kept in the value cell
SizeofHCELL_INDEX == 4
\* sizeof(PVOID)
SizeofPVOID == 4
\* FIELD_OFFSET(KEY_VALUE_PARTIAL_INFORMATION, Data[0]): TitleIndex, Type,
\* DataLength
KeyValuePartialHeader == 12
\* FIELD_OFFSET(KEY_VALUE_BASIC_INFORMATION, Name[0]): TitleIndex, Type,
\* NameLength
KeyValueBasicHeader == 12
\* FIELD_OFFSET(KEY_VALUE_FULL_INFORMATION, Name[0]): TitleIndex, Type,
\* DataOffset, DataLength, NameLength
KeyValueFullHeader == 20

\* values a key cell has room for
MaxValues == 2
\* data cells the hive has room for
MaxDataCells == 2
\* the cell indexes of the data cells: the indexes after those of the key cells
DataIds == {MaxKeys + 1 + d : d \in 1..MaxDataCells}
\* a data cell that is not allocated
FreeData == [InUse |-> FALSE, Size |-> 0, Data |-> <<>>]
\* the time KeQuerySystemTime reads; the hive starts at time 0
SystemTime == 1

ROUND_UP(n, align) == ((n + align - 1) \div align) * align

\* the value cell CmiAddValueToKey appends: no data yet. InOffset is the
\* REG_DATA_IN_OFFSET bit of DataSize; the DataOffset field holds the index
\* of the data cell, or the data itself (InlineData) when the bit is set
NewValue(name) ==
  [Name |-> name, DataType |-> REG_NONE, DataSize |-> 0, InOffset |-> FALSE,
   DataOffset |-> HCELL_NULL, InlineData |-> <<>>]

\* CmiScanKeyForValue: the place of the value of that name, 0 when the key
\* has none
CmiScanKeyForValue(KeyCell, ValueName) ==
  LET hits == {i \in 1..Len(KeyCell.Values) : KeyCell.Values[i].Name = ValueName}
  IN IF hits = {} THEN 0 ELSE Least(hits)

\* CmiAddValueToKey
CmiAddValueToKey(KeyCell, ValueName) ==
  [KeyCell EXCEPT !.Values = Append(@, NewValue(ValueName))]

\* the data cells allocated in the hive
DataCells(cells) == {d \in DataIds : cells[d].InUse}

\* HvAllocateCell for data: the index of a free data cell, HCELL_NULL when
\* the hive is full
HvAllocateCell(cells) ==
  LET free == {d \in DataIds : d - (MaxKeys + 1) <= budget.DataCells /\ ~cells[d].InUse}
  IN IF free = {} THEN HCELL_NULL ELSE Least(free)

HvFreeCell(cells, d) == [cells EXCEPT ![d] = FreeData]

\* the data cell of a value, HCELL_NULL when it has none: lines 2048-2058
DataCellOf(ValueCell) ==
  IF ~ValueCell.InOffset /\ ValueCell.DataSize # 0 THEN ValueCell.DataOffset
  ELSE HCELL_NULL

\* the size of the data cell of a value: lines 2048-2058
DataCellSizeOf(cells, ValueCell) ==
  IF DataCellOf(ValueCell) # HCELL_NULL THEN cells[DataCellOf(ValueCell)].Size ELSE 0

\* CmiDeleteValueFromKey: the value cell and its data cell are freed
CmiDeleteValueFromKey(cells, k, i) ==
  LET ValueCell == cells[k].Values[i]
      freed == IF DataCellOf(ValueCell) # HCELL_NULL
                 THEN HvFreeCell(cells, ValueCell.DataOffset) ELSE cells
  IN [freed EXCEPT ![k].Values = SubSeq(@, 1, i - 1) \o SubSeq(@, i + 1, Len(@))]

\* RtlCopyMemory of the first n bytes of the data of a value: from the data
\* cell, or from the DataOffset field when the data is kept there
ValueData(cells, ValueCell, n) ==
  IF n = 0 THEN <<>>
  ELSE IF ~ValueCell.InOffset THEN SubSeq(cells[ValueCell.DataOffset].Data, 1, n)
  ELSE SubSeq(ValueCell.InlineData, 1, n)

\* the KeyValuePartialInformation case of NtQueryValueKey and of
\* NtEnumerateValueKey: lines 1817-1853 and 1119-1153
ValuePartial(cells, ValueCell, Length) ==
  LET DataSize == ValueCell.DataSize
      fits == Length >= KeyValuePartialHeader
      Copied == IF fits /\ Length - KeyValuePartialHeader < DataSize
                  THEN Length - KeyValuePartialHeader ELSE DataSize
  IN [ResultLength |-> KeyValuePartialHeader + DataSize,
      Status |-> IF ~fits THEN STATUS_BUFFER_TOO_SMALL
                 ELSE IF Length - KeyValuePartialHeader < DataSize
                   THEN STATUS_BUFFER_OVERFLOW
                 ELSE STATUS_SUCCESS,
      Info |-> IF ~fits THEN <<>>
               ELSE [TitleIndex |-> 0, Type |-> ValueCell.DataType,
                     DataLength |-> DataSize,
                     Data |-> ValueData(cells, ValueCell, Copied),
                     Copied |-> Copied,
                     Writes |-> {[What |-> "Header", At |-> 0,
                                  Size |-> KeyValuePartialHeader],
                                 [What |-> "Data", At |-> KeyValuePartialHeader,
                                  Size |-> Copied]}]]

\* the bytes of a value name as reported: two for each character
ValueNameSizeOf(ValueCell) == 2 * Len(ValueCell.Name)

\* the bytes CmiCopyPackedName writes for NameSize bytes of a value name:
\* whole characters (the value names followed here are stored packed)
ValueNameBytesCopied(NameSize) == 2 * (NameSize \div 2)

\* the KeyValueBasicInformation case of NtQueryValueKey and of
\* NtEnumerateValueKey: lines 1772-1815 and 1074-1116
ValueBasic(ValueCell, Length) ==
  LET NameSize == ValueNameSizeOf(ValueCell)
      fits == Length >= KeyValueBasicHeader
  IN [ResultLength |-> KeyValueBasicHeader + NameSize,
      Status |-> IF ~fits THEN STATUS_BUFFER_TOO_SMALL
                 ELSE IF Length - KeyValueBasicHeader < NameSize
                   THEN STATUS_BUFFER_OVERFLOW
                 ELSE STATUS_SUCCESS,
      Info |-> IF ~fits THEN <<>>
               ELSE [TitleIndex |-> 0, Type |-> ValueCell.DataType,
                     NameLength |-> NameSize,
                     Writes |-> {[What |-> "Header", At |-> 0,
                                  Size |-> KeyValueBasicHeader],
                                 [What |-> "Name", At |-> KeyValueBasicHeader,
                                  Size |-> ValueNameBytesCopied(
                                             IF Length - KeyValueBasicHeader < NameSize
                                               THEN Length - KeyValueBasicHeader
                                             ELSE NameSize)]}]]

\* the KeyValueFullInformation case of NtEnumerateValueKey: lines 1160-1231
NtEnumerateValueKey_Full(cells, ValueCell, Length) ==
  LET NameSize == ValueNameSizeOf(ValueCell)
      DataSize == ValueCell.DataSize
      fits == Length >= KeyValueFullHeader
      DataOffset == ROUND_UP(KeyValueFullHeader + NameSize, SizeofPVOID)
      Copied == IF Length < DataOffset THEN 0
                ELSE IF Length - DataOffset < DataSize THEN Length - DataOffset
                ELSE DataSize
  IN [ResultLength |-> ROUND_UP(KeyValueFullHeader + NameSize, SizeofPVOID) + DataSize,
      Status |-> IF ~fits THEN STATUS_BUFFER_TOO_SMALL
                 ELSE IF Length < DataOffset THEN STATUS_BUFFER_OVERFLOW
                 ELSE IF Length - DataOffset < DataSize THEN STATUS_BUFFER_OVERFLOW
                 ELSE STATUS_SUCCESS,
      Info |-> IF ~fits THEN <<>>
               ELSE [TitleIndex |-> 0, Type |-> ValueCell.DataType,
                     NameLength |-> NameSize, DataOffset |-> DataOffset,
                     DataLength |-> DataSize,
                     Data |-> ValueData(cells, ValueCell, Copied),
                     Copied |-> Copied,
                     Writes |-> {[What |-> "Header", At |-> 0,
                                  Size |-> KeyValueFullHeader],
                                 [What |-> "Name", At |-> KeyValueFullHeader,
                                  Size |-> ValueNameBytesCopied(
                                             IF Length < DataOffset
                                               THEN Length - KeyValueFullHeader
                                             ELSE NameSize)],
                                 [What |-> "Data", At |-> DataOffset,
                                  Size |-> Copied]}]]

\* the KeyValueFullInformation case of NtQueryValueKey: lines 1859-1934; the
\* room left for the data is rounded up before it is compared
NtQueryValueKey_Full(cells, ValueCell, Length) ==
  LET NameSize == ValueNameSizeOf(ValueCell)
      DataSize == ValueCell.DataSize
      fits == Length >= KeyValueFullHeader
      DataOffset == ROUND_UP(KeyValueFullHeader + NameSize, SizeofPVOID)
      Room == ROUND_UP(Length - KeyValueFullHeader - NameSize, SizeofPVOID)
      Copied == IF Length - KeyValueFullHeader < NameSize THEN 0
                ELSE IF Room < DataSize THEN Room
                ELSE DataSize
  IN [ResultLength |-> ROUND_UP(KeyValueFullHeader + NameSize, SizeofPVOID) + DataSize,
      Status |-> IF ~fits THEN STATUS_BUFFER_TOO_SMALL
                 ELSE IF Length - KeyValueFullHeader < NameSize
                   THEN STATUS_BUFFER_OVERFLOW
                 ELSE IF Room < DataSize THEN STATUS_BUFFER_OVERFLOW
                 ELSE STATUS_SUCCESS,
      Info |-> IF ~fits THEN <<>>
               ELSE [TitleIndex |-> 0, Type |-> ValueCell.DataType,
                     NameLength |-> NameSize, DataOffset |-> DataOffset,
                     DataLength |-> DataSize,
                     Data |-> ValueData(cells, ValueCell, Copied),
                     Copied |-> Copied,
                     Writes |-> {[What |-> "Header", At |-> 0,
                                  Size |-> KeyValueFullHeader],
                                 [What |-> "Name", At |-> KeyValueFullHeader,
                                  Size |-> ValueNameBytesCopied(
                                             IF Length - KeyValueFullHeader < NameSize
                                               THEN Length - KeyValueFullHeader
                                             ELSE NameSize)],
                                 [What |-> "Data", At |-> DataOffset,
                                  Size |-> Copied]}]]

\* the switch on KeyValueInformationClass of NtEnumerateValueKey: lines
\* 1072-1236; any other class leaves the status and *ResultLength alone
NtEnumerateValueKey_Info(cells, f, ValueCell) ==
  CASE f.KeyInformationClass = KeyValueBasicInformation ->
         ValueBasic(ValueCell, f.Length)
    [] f.KeyInformationClass = KeyValuePartialInformation ->
         ValuePartial(cells, ValueCell, f.Length)
    [] f.KeyInformationClass = KeyValueFullInformation ->
         NtEnumerateValueKey_Full(cells, ValueCell, f.Length)
    [] OTHER -> [ResultLength |-> f.ResultLength, Status |-> STATUS_SUCCESS,
                 Info |-> f.Info]

\* the switch on KeyValueInformationClass of NtQueryValueKey: lines 1769-1940
NtQueryValueKey_Info(cells, f, ValueCell) ==
  CASE f.KeyInformationClass = KeyValueBasicInformation ->
         ValueBasic(ValueCell, f.Length)
    [] f.KeyInformationClass = KeyValuePartialInformation ->
         ValuePartial(cells, ValueCell, f.Length)
    [] f.KeyInformationClass = KeyValueFullInformation ->
         NtQueryValueKey_Full(cells, ValueCell, f.Length)
    [] OTHER -> [ResultLength |-> f.ResultLength, Status |-> STATUS_INVALID_INFO_CLASS,
                 Info |-> f.Info]

\* the end of a step under the registry lock: the frame after the lock is
\* released and the post-callback is called with the status
Finish(f, status) ==
  PostCallback(Released([f EXCEPT !.pc = "post", !.Status = status]), status,
               f.KeyObject)

(***************************************************************************)
(* NtEnumerateValueKey                                                     *)
(***************************************************************************)
NtEnumerateValueKey_Call(t, h, Index, KeyValueInformationClass, Length) ==
  HandleCall(t, "NtEnumerateValueKey",
             [NoCall EXCEPT !.KeyHandle = h, !.Index = Index,
                            !.KeyInformationClass = KeyValueInformationClass,
                            !.Length = Length])

\* under the registry lock: lines 1048-1247; the key object is dereferenced
\* before the post-callback is called
NtEnumerateValueKey_Read(t) ==
  /\ pc[t] = "NtEnumerateValueKey"
  /\ call[t].pc = "locked"
  /\ KeyCellOf(t) # HCELL_NULL
  /\ LET f == call[t]
         KeyCell == Cells[KeyCellOf(t)]
         info == NtEnumerateValueKey_Info(Cells, f, KeyCell.Values[f.Index + 1])
         g == IF f.Index >= Len(KeyCell.Values)
                THEN Finish(f, STATUS_NO_MORE_ENTRIES)
              ELSE Finish([f EXCEPT !.ResultLength = info.ResultLength,
                                    !.Info = info.Info], info.Status)
     IN Commit(t, ObDereferenceObject(World, f.KeyObject),
               [g EXCEPT !.referenced = FALSE])
  /\ ReleaseLock(t)
  /\ inv' = Invoke(t)
  /\ UNCHANGED <<CmiCallbackHead, CmiCallbackLock, Callback, regId, regCount, unregDone,
                 pc, reg, unr, budget, CmiRegistryInitialized, bootWork>>

(***************************************************************************)
(* NtQueryKey                                                              *)
(***************************************************************************)
NtQueryKey_Call(t, h, KeyInformationClass, Length) ==
  HandleCall(t, "NtQueryKey",
             [NoCall EXCEPT !.KeyHandle = h,
                            !.KeyInformationClass = KeyInformationClass,
                            !.Length = Length])

\* the KeyBasicInformation case: lines 1530-1563
NtQueryKey_Basic(KeyCell, KeyObj, Length) ==
  LET NameSize == 2 * Len(KeyObj.Name)
      fits == Length >= KeyBasicHeader
      Copied == IF fits /\ Length - KeyBasicHeader < NameSize
                  THEN Length - KeyBasicHeader ELSE NameSize
  IN [ResultLength |-> KeyBasicHeader,
      Status |-> IF ~fits THEN STATUS_BUFFER_TOO_SMALL
                 ELSE IF Length - KeyBasicHeader < NameSize THEN STATUS_BUFFER_OVERFLOW
                 ELSE STATUS_SUCCESS,
      Info |-> IF ~fits THEN <<>>
               ELSE [LastWriteTime |-> KeyCell.LastWriteTime, TitleIndex |-> 0,
                     NameLength |-> NameSize,
                     Name |-> SubSeq(KeyObj.Name, 1, Copied \div 2),
                     Writes |-> {[What |-> "Header", At |-> 0, Size |-> KeyBasicHeader],
                                 [What |-> "Name", At |-> KeyBasicHeader,
                                  Size |-> Copied]}]]

\* the KeyNodeInformation case: lines 1565-1618; the buffer is refused
\* unless it holds the whole answer
NtQueryKey_Node(KeyCell, KeyObj, Length) ==
  LET NameSize == 2 * Len(KeyObj.Name)
      ClassSize == KeyCell.ClassSize
      Required == KeyNodeHeader + NameSize + ClassSize
      fits == Length >= Required
  IN [ResultLength |-> Required,
      Status |-> IF ~fits THEN STATUS_BUFFER_TOO_SMALL
                 ELSE IF Length - KeyNodeHeader < NameSize THEN STATUS_BUFFER_OVERFLOW
                 ELSE IF Length - KeyNodeHeader - NameSize < ClassSize
                   THEN STATUS_BUFFER_OVERFLOW
                 ELSE STATUS_SUCCESS,
      Info |-> IF ~fits THEN <<>>
               ELSE [LastWriteTime |-> KeyCell.LastWriteTime, TitleIndex |-> 0,
                     ClassLength |-> ClassSize, NameLength |-> NameSize,
                     Name |-> KeyObj.Name,
                     Writes |-> {[What |-> "Header", At |-> 0, Size |-> KeyNodeHeader],
                                 [What |-> "Name", At |-> KeyNodeHeader,
                                  Size |-> NameSize],
                                 [What |-> "Class",
                                  At |-> KeyNodeHeader + SizeofWCHAR * NameSize,
                                  Size |-> ClassSize]}]]

\* the KeyFullInformation case: lines 1620-1664
NtQueryKey_Full(KeyCell, KeyObj, Length) ==
  LET ClassSize == KeyCell.ClassSize
      fits == Length >= KeyFullHeader
  IN [ResultLength |-> KeyFullHeader + ClassSize,
      Status |-> IF ~fits THEN STATUS_BUFFER_TOO_SMALL
                 ELSE IF Length - KeyFullHeader < ClassSize THEN STATUS_BUFFER_OVERFLOW
                 ELSE STATUS_SUCCESS,
      Info |-> IF ~fits THEN <<>>
               ELSE [LastWriteTime |-> KeyCell.LastWriteTime, TitleIndex |-> 0,
                     ClassLength |-> ClassSize,
                     SubKeys |-> KeyCell.SubKeyCounts[HvStable]
                                   + KeyCell.SubKeyCounts[HvVolatile],
                     Values |-> Len(KeyCell.Values),
                     Writes |-> {[What |-> "Header", At |-> 0, Size |-> KeyFullHeader],
                                 [What |-> "Class", At |-> KeyFullHeader,
                                  Size |-> IF Length - KeyFullHeader < ClassSize
                                             THEN Length - KeyFullHeader
                                           ELSE ClassSize]}]]

\* the switch on KeyInformationClass: lines 1529-1677
NtQueryKey_Info(f, KeyCell, KeyObj) ==
  CASE f.KeyInformationClass = KeyBasicInformation ->
         NtQueryKey_Basic(KeyCell, KeyObj, f.Length)
    [] f.KeyInformationClass = KeyNodeInformation ->
         NtQueryKey_Node(KeyCell, KeyObj, f.Length)
    [] f.KeyInformationClass = KeyFullInformation ->
         NtQueryKey_Full(KeyCell, KeyObj, f.Length)
    [] f.KeyInformationClass = KeyNameInformation ->
         [ResultLength |-> f.ResultLength, Status |-> STATUS_NOT_IMPLEMENTED,
          Info |-> f.Info]
    [] OTHER -> [ResultLength |-> f.ResultLength, Status |-> STATUS_INVALID_INFO_CLASS,
                 Info |-> f.Info]

\* under the registry lock: lines 1523-1683
NtQueryKey_Read(t) ==
  /\ pc[t] = "NtQueryKey"
  /\ call[t].pc = "locked"
  /\ KeyCellOf(t) # HCELL_NULL
  /\ LET f == call[t]
         info == NtQueryKey_Info(f, Cells[KeyCellOf(t)], KeyObject[f.KeyObject])
     IN call' = [call EXCEPT ![t] =
                   Finish([f EXCEPT !.ResultLength = info.ResultLength,
                                    !.Info = info.Info], info.Status)]
  /\ ReleaseLock(t)
  /\ inv' = Invoke(t)
  /\ UNCHANGED <<CmiCallbackHead, CmiCallbackLock, Callback, regId, regCount, unregDone,
                 pc, reg, unr, Cells, KeyObject, HandleTable, fault, budget, CmiRegistryInitialized, bootWork>>

(***************************************************************************)
(* NtQueryValueKey                                                         *)
(***************************************************************************)
NtQueryValueKey_Call(t, h, ValueName, KeyValueInformationClass, Length) ==
  HandleCall(t, "NtQueryValueKey",
             [NoCall EXCEPT !.KeyHandle = h, !.ValueName = ValueName,
                            !.KeyInformationClass = KeyValueInformationClass,
                            !.Length = Length])

\* under the registry lock: lines 1751-1947
NtQueryValueKey_Read(t) ==
  /\ pc[t] = "NtQueryValueKey"
  /\ call[t].pc = "locked"
  /\ KeyCellOf(t) # HCELL_NULL
  /\ LET f == call[t]
         KeyCell == Cells[KeyCellOf(t)]
         found == CmiScanKeyForValue(KeyCell, f.ValueName)
         info == NtQueryValueKey_Info(Cells, f, KeyCell.Values[found])
     IN call' = [call EXCEPT ![t] =
                   IF found = 0 THEN Finish(f, STATUS_OBJECT_NAME_NOT_FOUND)
                   ELSE Finish([f EXCEPT !.ResultLength = info.ResultLength,
                                         !.Info = info.Info], info.Status)]
  /\ ReleaseLock(t)
  /\ inv' = Invoke(t)
  /\ UNCHANGED <<CmiCallbackHead, CmiCallbackLock, Callback, regId, regCount, unregDone,
                 pc, reg, unr, Cells, KeyObject, HandleTable, fault, budget, CmiRegistryInitialized, bootWork>>

(***************************************************************************)
(* NtSetValueKey                                                           *)
(***************************************************************************)
NtSetValueKey_Call(t, h, ValueName, Type, Data, DataSize) ==
  HandleCall(t, "NtSetValueKey",
             [NoCall EXCEPT !.KeyHandle = h, !.ValueName = ValueName, !.Type = Type,
                            !.Data = Data, !.DataSize = DataSize])

\* lines 2061-2074: at most sizeof(HCELL_INDEX) bytes are stored in the
\* DataOffset field of value i of key cell k; the data cell the value had
\* is freed
NtSetValueKey_InlineFlagClear(cells, k, i, Type, bytes, DataSize) ==
  LET ValueCell == cells[k].Values[i]
      freed == IF DataCellOf(ValueCell) # HCELL_NULL
                 THEN HvFreeCell(cells, ValueCell.DataOffset) ELSE cells
  IN [freed EXCEPT ![k].Values[i] =
        [ValueCell EXCEPT !.InlineData = bytes, !.DataOffset = HCELL_NULL,
                          !.DataSize = DataSize, !.InOffset = FALSE,
                          !.DataType = Type]]

NtSetValueKey_Inline(cells, k, i, Type, bytes, DataSize) ==
  LET ValueCell == cells[k].Values[i]
      freed == IF DataCellOf(ValueCell) # HCELL_NULL
                 THEN HvFreeCell(cells, ValueCell.DataOffset) ELSE cells
  IN [freed EXCEPT ![k].Values[i] =
        [ValueCell EXCEPT !.InlineData = bytes, !.DataOffset = HCELL_NULL,
                          !.DataSize = DataSize, !.InOffset = TRUE,
                          !.DataType = Type]]

\* lines 2078-2113: the data is larger than the data cell of the value; it
\* goes to the new cell NewOffset and the old cell is freed
NtSetValueKey_NewCellOldKept(cells, k, i, Type, bytes, DataSize, NewOffset) ==
  LET ValueCell == cells[k].Values[i]
  IN [cells EXCEPT ![NewOffset] = [InUse |-> TRUE, Size |-> DataSize, Data |-> bytes],
                   ![k].Values[i] =
        [ValueCell EXCEPT !.DataOffset = NewOffset, !.InlineData = <<>>,
                          !.DataSize = DataSize, !.InOffset = FALSE,
                          !.DataType = Type]]

NtSetValueKey_NewCell(cells, k, i, Type, bytes, DataSize, NewOffset) ==
  LET ValueCell == cells[k].Values[i]
      allocated == [cells EXCEPT ![NewOffset] =
                      [InUse |-> TRUE, Size |-> DataSize, Data |-> <<>>]]
      freed == IF DataCellOf(ValueCell) # HCELL_NULL
                 THEN HvFreeCell(allocated, ValueCell.DataOffset) ELSE allocated
  IN [freed EXCEPT ![NewOffset].Data = bytes,
                   ![k].Values[i] =
        [ValueCell EXCEPT !.DataOffset = NewOffset, !.InlineData = <<>>,
                          !.DataSize = DataSize, !.InOffset = FALSE,
                          !.DataType = Type]]

\* lines 2110-2113 when the data cell of the value is large enough
NtSetValueKey_Reuse(cells, k, i, Type, bytes, DataSize) ==
  LET ValueCell == cells[k].Values[i]
  IN [cells EXCEPT ![DataCellOf(ValueCell)].Data = bytes,
                   ![k].Values[i] =
        [ValueCell EXCEPT !.DataSize = DataSize, !.InOffset = FALSE,
                          !.DataType = Type]]

\* lines 2061-2115: the hive after the data is stored in value i of key
\* cell k
NtSetValueKey_Store(cells, k, i, Type, Data, DataSize, NewOffset) ==
  LET bytes == SubSeq(Data, 1, DataSize)
  IN IF DataSize <= SizeofHCELL_INDEX
       THEN NtSetValueKey_Inline(cells, k, i, Type, bytes, DataSize)
     ELSE IF DataSize > DataCellSizeOf(cells, cells[k].Values[i])
       THEN NtSetValueKey_NewCell(cells, k, i, Type, bytes, DataSize, NewOffset)
     ELSE NtSetValueKey_Reuse(cells, k, i, Type, bytes, DataSize)

\* under the registry lock: lines 2012-2130
NtSetValueKey_Set(t) ==
  /\ pc[t] = "NtSetValueKey"
  /\ call[t].pc = "locked"
  /\ KeyCellOf(t) # HCELL_NULL
  /\ LET f == call[t]
         k == KeyCellOf(t)
         found == CmiScanKeyForValue(Cells[k], f.ValueName)
         room == Len(Cells[k].Values) < budget.Values
         KeyCell == IF found = 0 THEN CmiAddValueToKey(Cells[k], f.ValueName)
                    ELSE Cells[k]
         i == IF found = 0 THEN Len(KeyCell.Values) ELSE found
         ValueCell == KeyCell.Values[i]
         added == [Cells EXCEPT ![k] = KeyCell]
         allocates == /\ f.DataSize > SizeofHCELL_INDEX
                      /\ f.DataSize > DataCellSizeOf(added, ValueCell)
         NewOffset == HvAllocateCell(added)
         written == NtSetValueKey_Store(added, k, i, f.Type, f.Data, f.DataSize,
                                        NewOffset)
         stored == [written EXCEPT
                      ![k].Flags = IF f.Type = REG_LINK /\ f.ValueName = SymbolicLinkValue
                                     THEN @ \cup {REG_KEY_LINK_CELL} ELSE @,
                      ![k].LastWriteTime = SystemTime,
                      ![k].Dirty = TRUE]
     IN IF found = 0 /\ ~room
          THEN Commit(t, World, Finish(f, STATUS_INSUFFICIENT_RESOURCES))
        ELSE IF allocates /\ NewOffset = HCELL_NULL
          THEN Commit(t, [World EXCEPT !.Cells = added], Finish(f, f.Status))
        ELSE Commit(t, [World EXCEPT !.Cells = stored],
                    Finish([f EXCEPT !.sync = TRUE], f.Status))
  /\ ReleaseLock(t)
  /\ inv' = Invoke(t)
  /\ UNCHANGED <<CmiCallbackHead, CmiCallbackLock, Callback, regId, regCount, unregDone,
                 pc, reg, unr, budget, CmiRegistryInitialized, bootWork>>

(***************************************************************************)
(* NtDeleteValueKey                                                        *)
(***************************************************************************)
\* captured: ProbeAndCaptureUnicodeString could read the name; when it could
\* not, the reference is given back and no callback is called (lines 2168-2173)
NtDeleteValueKey_Call(t, h, ValueName, captured) ==
  IF captured \/ HandleTable[h] = NoObject
    THEN HandleCall(t, "NtDeleteValueKey",
                    [NoCall EXCEPT !.KeyHandle = h, !.ValueName = ValueName])
    ELSE /\ pc[t] = "idle"
         /\ ~fault
         /\ pc' = [pc EXCEPT ![t] = "NtDeleteValueKey"]
         /\ call' = [call EXCEPT ![t] =
                       [NoCall EXCEPT !.KeyHandle = h, !.ValueName = ValueName,
                                      !.KeyObject = HandleTable[h], !.pc = "ret",
                                      !.Status = STATUS_ACCESS_VIOLATION,
                                      !.before = Snapshot]]
         /\ UNCHANGED <<CmiCallbackHead, CmiCallbackLock, Callback, regId, regCount,
                        unregDone, reg, unr, inv, keyvars>>

\* under the registry lock: lines 2196-2216
NtDeleteValueKey_Delete(t) ==
  /\ pc[t] = "NtDeleteValueKey"
  /\ call[t].pc = "locked"
  /\ KeyCellOf(t) # HCELL_NULL
  /\ LET f == call[t]
         k == KeyCellOf(t)
         found == CmiScanKeyForValue(Cells[k], f.ValueName)
         deleted == IF found = 0 THEN Cells ELSE CmiDeleteValueFromKey(Cells, k, found)
         st == IF found = 0 THEN STATUS_OBJECT_NAME_NOT_FOUND ELSE STATUS_SUCCESS
     IN Commit(t, [World EXCEPT !.Cells = [deleted EXCEPT
                                             ![k].LastWriteTime = SystemTime,
                                             ![k].Dirty = TRUE]],
               Finish([f EXCEPT !.sync = TRUE], st))
  /\ ReleaseLock(t)
  /\ inv' = Invoke(t)
  /\ UNCHANGED <<CmiCallbackHead, CmiCallbackLock, Callback, regId, regCount, unregDone,
                 pc, reg, unr, budget, CmiRegistryInitialized, bootWork>>

(***************************************************************************)
(* NtQueryMultipleValueKey                                                 *)
(***************************************************************************)
NtQueryMultipleValueKey_Call(t, h, ValueList, Length) ==
  HandleCall(t, "NtQueryMultipleValueKey",
             [NoCall EXCEPT !.KeyHandle = h, !.ValueList = ValueList,
                            !.Length = Length, !.BufferLength = Length])

RECURSIVE NtQueryMultipleValueKey_LoopStops(_, _, _, _, _, _)
\* mutant: the loop ends at the first entry that does not fit
NtQueryMultipleValueKey_LoopStops(cells, KeyCell, ValueList, Length, i, acc) ==
  IF i > Len(ValueList) THEN acc
  ELSE LET found == CmiScanKeyForValue(KeyCell, ValueList[i])
           ValueCell == KeyCell.Values[found]
           BufferLength == ROUND_UP(acc.BufferLength, SizeofPVOID)
           fits == BufferLength + ValueCell.DataSize <= Length
           DataPtr == ROUND_UP(acc.DataPtr, SizeofPVOID)
       IN IF found = 0
            THEN [acc EXCEPT !.Status = STATUS_OBJECT_NAME_NOT_FOUND]
          ELSE IF ~fits
            THEN [acc EXCEPT !.Status = STATUS_BUFFER_TOO_SMALL,
                             !.BufferLength = BufferLength + ValueCell.DataSize]
          ELSE NtQueryMultipleValueKey_LoopStops(cells, KeyCell, ValueList, Length, i + 1,
                 [Status |-> STATUS_SUCCESS,
                  BufferLength |-> BufferLength + ValueCell.DataSize,
                  DataPtr |-> DataPtr + ValueCell.DataSize,
                  Entries |-> Append(acc.Entries,
                                     [Type |-> ValueCell.DataType,
                                      DataLength |-> ValueCell.DataSize,
                                      DataOffset |-> DataPtr,
                                      Data |-> ValueData(cells, ValueCell,
                                                         ValueCell.DataSize)])])

RECURSIVE NtQueryMultipleValueKey_Loop(_, _, _, _, _, _)
\* the loop of lines 2474-2523 from entry i on; acc holds Status,
\* BufferLength, the offset of DataPtr and the entries filled
NtQueryMultipleValueKey_Loop(cells, KeyCell, ValueList, Length, i, acc) ==
  IF i > Len(ValueList) THEN acc
  ELSE LET found == CmiScanKeyForValue(KeyCell, ValueList[i])
           ValueCell == KeyCell.Values[found]
           BufferLength == ROUND_UP(acc.BufferLength, SizeofPVOID)
           fits == BufferLength + ValueCell.DataSize <= Length
           DataPtr == ROUND_UP(acc.DataPtr, SizeofPVOID)
       IN IF found = 0
            THEN [acc EXCEPT !.Status = STATUS_OBJECT_NAME_NOT_FOUND]
          ELSE NtQueryMultipleValueKey_Loop(cells, KeyCell, ValueList, Length, i + 1,
                 [Status |-> IF fits THEN STATUS_SUCCESS ELSE STATUS_BUFFER_TOO_SMALL,
                  BufferLength |-> BufferLength + ValueCell.DataSize,
                  DataPtr |-> IF fits THEN DataPtr + ValueCell.DataSize ELSE acc.DataPtr,
                  Entries |-> IF fits
                                THEN Append(acc.Entries,
                                            [Type |-> ValueCell.DataType,
                                             DataLength |-> ValueCell.DataSize,
                                             DataOffset |-> DataPtr,
                                             Data |-> ValueData(cells, ValueCell,
                                                                ValueCell.DataSize)])
                                ELSE acc.Entries])

\* under the registry lock: lines 2465-2539
NtQueryMultipleValueKey_Read(t) ==
  /\ pc[t] = "NtQueryMultipleValueKey"
  /\ call[t].pc = "locked"
  /\ KeyCellOf(t) # HCELL_NULL
  /\ LET f == call[t]
         r == NtQueryMultipleValueKey_Loop(Cells, Cells[KeyCellOf(t)], f.ValueList,
                                           f.Length, 1,
                [Status |-> f.Status, BufferLength |-> 0, DataPtr |-> 0,
                 Entries |-> <<>>])
     IN call' = [call EXCEPT ![t] =
                   Finish([f EXCEPT !.ResultLength = r.BufferLength,
                                    !.Length = IF NT_SUCCESS(r.Status) THEN r.BufferLength
                                               ELSE @,
                                    !.Info = r.Entries], r.Status)]
  /\ ReleaseLock(t)
  /\ inv' = Invoke(t)
  /\ UNCHANGED <<CmiCallbackHead, CmiCallbackLock, Callback, regId, regCount, unregDone,
                 pc, reg, unr, Cells, KeyObject, HandleTable, fault, budget, CmiRegistryInitialized, bootWork>>

(***************************************************************************)
(* NtSetInformationKey                                                     *)
(***************************************************************************)
NtSetInformationKey_Call(t, h, KeyInformationClass, LastWriteTime, KeyInformationLength) ==
  HandleCall(t, "NtSetInformationKey",
             [NoCall EXCEPT !.KeyHandle = h,
                            !.KeyInformationClass = KeyInformationClass,
                            !.LastWriteTime = LastWriteTime,
                            !.Length = KeyInformationLength])

\* lines 2713-2721: a request that is not accepted goes to the post-callback
\* without the registry lock
NtSetInformationKey_Reject(t) ==
  /\ pc[t] = "NtSetInformationKey"
  /\ call[t].pc = "lock"
  /\ \/ call[t].KeyInformationClass # KeyWriteTimeInformation
     \/ call[t].Length # SizeofKEY_WRITE_TIME_INFORMATION
  /\ LET st == IF call[t].KeyInformationClass # KeyWriteTimeInformation
                 THEN STATUS_INVALID_INFO_CLASS ELSE STATUS_INFO_LENGTH_MISMATCH
     IN call' = [call EXCEPT ![t] =
                   PostCallback([call[t] EXCEPT !.pc = "post", !.Status = st], st,
                                call[t].KeyObject)]
  /\ inv' = Invoke(t)
  /\ UNCHANGED <<CmiCallbackHead, CmiCallbackLock, Callback, regId, regCount, unregDone,
                 pc, reg, unr, CmiRegistryLock, Cells, KeyObject, HandleTable, fault,
                 budget, CmiRegistryInitialized, bootWork>>

\* under the registry lock: lines 2728-2742
NtSetInformationKey_Write(t) ==
  /\ pc[t] = "NtSetInformationKey"
  /\ call[t].pc = "locked"
  /\ KeyCellOf(t) # HCELL_NULL
  /\ LET f == call[t]
         k == KeyCellOf(t)
     IN Commit(t, [World EXCEPT !.Cells[k].LastWriteTime = f.LastWriteTime,
                                !.Cells[k].Dirty = TRUE],
               Finish([f EXCEPT !.sync = TRUE], f.Status))
  /\ ReleaseLock(t)
  /\ inv' = Invoke(t)
  /\ UNCHANGED <<CmiCallbackHead, CmiCallbackLock, Callback, regId, regCount, unregDone,
                 pc, reg, unr, budget, CmiRegistryInitialized, bootWork>>

(***************************************************************************)
(* NtInitializeRegistry                                                    *)
(***************************************************************************)
MaxBootCalls == 3

\* the calls of thread t to NtInitializeRegistry begin
NtInitializeRegistry_Call(t, SetUpBoot) ==
  /\ pc[t] = "idle"
  /\ bootWork.Calls < MaxBootCalls
  /\ pc' = [pc EXCEPT ![t] = "NtInitializeRegistry"]
  /\ call' = [call EXCEPT ![t] = [NoCall EXCEPT !.pc = "check", !.SetUpBoot = SetUpBoot]]
  /\ bootWork' = [bootWork EXCEPT !.Calls = @ + 1]
  /\ UNCHANGED <<CmiCallbackHead, CmiCallbackLock, Callback, regId, regCount, unregDone,
                 reg, unr, inv, CmiRegistryLock, Cells, KeyObject, HandleTable, fault,
                 budget, CmiRegistryInitialized>>

\* lines 2818-2819: the flag is read, without any lock
NtInitializeRegistry_Check(t) ==
  /\ pc[t] = "NtInitializeRegistry"
  /\ call[t].pc = "check"
  /\ call' = [call EXCEPT ![t] =
                IF CmiRegistryInitialized
                  THEN [@ EXCEPT !.pc = "ret", !.Status = STATUS_ACCESS_DENIED]
                  ELSE [@ EXCEPT !.pc = "save"]]
  /\ UNCHANGED <<cbvars, CmiRegistryLock, Cells, KeyObject, HandleTable, fault, budget,
                 CmiRegistryInitialized, bootWork>>

\* line 2822: IopSaveBootLogToFile
NtInitializeRegistry_SaveBootLog(t) ==
  /\ pc[t] = "NtInitializeRegistry"
  /\ call[t].pc = "save"
  /\ call' = [call EXCEPT ![t].pc = "hives"]
  /\ bootWork' = [bootWork EXCEPT !.Saved = @ + 1]
  /\ UNCHANGED <<cbvars, CmiRegistryLock, Cells, KeyObject, HandleTable, fault, budget,
                 CmiRegistryInitialized>>

\* line 2824: Status = CmiInitHives(SetUpBoot)
NtInitializeRegistry_InitHives(t, Status) ==
  /\ pc[t] = "NtInitializeRegistry"
  /\ call[t].pc = "hives"
  /\ call' = [call EXCEPT ![t].pc = "set", ![t].Status = Status]
  /\ bootWork' = [bootWork EXCEPT !.InitHives = @ + 1]
  /\ UNCHANGED <<cbvars, CmiRegistryLock, Cells, KeyObject, HandleTable, fault, budget,
                 CmiRegistryInitialized>>

\* lines 2826-2828: CmiRegistryInitialized = TRUE; return Status
NtInitializeRegistry_SetInitialized(t) ==
  /\ pc[t] = "NtInitializeRegistry"
  /\ call[t].pc = "set"
  /\ call' = [call EXCEPT ![t].pc = "ret"]
  /\ CmiRegistryInitialized' = TRUE
  /\ UNCHANGED <<cbvars, CmiRegistryLock, Cells, KeyObject, HandleTable, fault, budget,
                 bootWork>>

(***************************************************************************)
(* Keys under one caller.                                                  *)
(***************************************************************************)
\* the callers of the key specification
KeyThreads == {Least(Threads)}

InitKeys(room) ==
  /\ CmiRegistryLock = FreeLock
  /\ Cells = [c \in CellIds \cup DataIds |->
               IF c = RootCell THEN [FreeCell EXCEPT !.InUse = TRUE]
               ELSE IF c \in CellIds THEN FreeCell
               ELSE FreeData]
  /\ KeyObject = [o \in ObjIds |->
                   IF o = RootKey
                     THEN [FreeObject EXCEPT !.Allocated = TRUE,
                                             !.KeyCellOffset = RootCell,
                                             !.ParentKey = RootKey,
                                             !.PointerCount = 1, !.Linked = TRUE]
                     ELSE FreeObject]
  /\ HandleTable = [h \in Handles |-> NoObject]
  /\ fault = FALSE
  /\ budget = room
  /\ CmiRegistryInitialized = FALSE
  /\ bootWork = [Calls |-> 0, Saved |-> 0, InitHives |-> 0]
  /\ call = [t \in Threads |-> NoCall]

\* a callback list that does not change: the first n addresses hold the
\* registered callbacks
InitCallbacks(n) ==
  /\ CmiCallbackLock = NoThread
  /\ CmiCallbackHead = [i \in 1..n |-> i]
  /\ Callback = [a \in Addrs |-> IF a <= n THEN FreshCallback ELSE FreeMemory]
  /\ regId = [a \in Addrs |-> IF a <= n THEN a ELSE NoId]
  /\ regCount = n
  /\ unregDone = {}
  /\ pc = [t \in Threads |-> "idle"]
  /\ reg = [t \in Threads |-> NoReg]
  /\ unr = [t \in Threads |-> NoUnr]
  /\ inv = [t \in Threads |-> NoInv]

\* the steps of CmiCallRegisteredCallbacks inside a dispatcher
RunCallbacks(t) ==
  \/ InvokeAcquire(t)
  \/ InvokeWalk(t)
  \/ \E status \in CallbackResults : CallbackReturns(t, status)
  \/ InvokeReacquire(t)
  \/ InvokeRelease(t)

\* the names of a key and of a subkey of it
KeyNames == {<<"X">>, <<"X", Backslash, "X">>}

StartKey(t) ==
  \/ \E name \in KeyNames, options \in {REG_OPTION_NON_VOLATILE, REG_OPTION_VOLATILE} :
       NtCreateKey_Call(t, name, options, 0)
  \/ \E name \in KeyNames : NtOpenKey_Call(t, name)
  \/ \E h \in Handles : NtDeleteKey_Call(t, h)
  \/ \E h \in Handles, Index \in 0..1 :
       NtEnumerateKey_Call(t, h, Index, KeyBasicInformation, MaxLength)
  \/ \E h \in Handles : NtClose(t, h)

\* no callback is registered: the pre-callback never fails
RunKey(t) ==
  \/ InvokeAcquire(t)
  \/ InvokeWalk(t)
  \/ NtCreateKey_Find(t)
  \/ NtCreateKey_Acquire(t)
  \/ NtCreateKey_Insert(t)
  \/ NtCreateKey_PostDone(t)
  \/ NtCreateKey_Sync(t)
  \/ NtOpenKey_Find(t)
  \/ NtOpenKey_PostDone(t)
  \/ HandlePreDone(t)
  \/ HandleAcquire(t)
  \/ NtDeleteKey_Mark(t)
  \/ NtEnumerateKey_Read(t)
  \/ HandlePostDone(t)
  \/ KeyCellFault(t)
  \/ DispatcherReturn(t)

NextKey == \E t \in KeyThreads : StartKey(t) \/ RunKey(t)

InitKey ==
  /\ InitCallbacks(0)
  /\ InitKeys([Keys |-> MaxKeys, Handles |-> MaxHandles, Values |-> 0, DataCells |-> 0])

SpecKey == InitKey /\ [][NextKey]_vars

(***************************************************************************)
(* NtCreateKey with every name, under one caller.                          *)
(***************************************************************************)
\* keys the hive holds besides the root when names are explored
PathKeys == 1

StartPath(t) ==
  \/ \E name \in Paths, options \in {REG_OPTION_NON_VOLATILE, REG_OPTION_VOLATILE} :
       NtCreateKey_Call(t, name, options, 0)
  \/ \E h \in Handles : NtClose(t, h)

RunPath(t) ==
  \/ InvokeAcquire(t)
  \/ InvokeWalk(t)
  \/ NtCreateKey_Find(t)
  \/ NtCreateKey_Acquire(t)
  \/ NtCreateKey_Insert(t)
  \/ NtCreateKey_PostDone(t)
  \/ NtCreateKey_Sync(t)
  \/ DispatcherReturn(t)

NextPath == \E t \in KeyThreads : StartPath(t) \/ RunPath(t)

InitPath ==
  /\ InitCallbacks(0)
  /\ InitKeys([Keys |-> PathKeys, Handles |-> MaxHandles, Values |-> 0, DataCells |-> 0])

SpecPath == InitPath /\ [][NextPath]_vars

(***************************************************************************)
(* The subkeys of the root key enumerated, under one caller.               *)
(***************************************************************************)
\* names of one component
SubKeyNames == {[i \in 1..n |-> "X"] : n \in 1..MaxKeys}

StartEnum(t) ==
  \/ \E name \in SubKeyNames, options \in {REG_OPTION_NON_VOLATILE, REG_OPTION_VOLATILE} :
       NtCreateKey_Call(t, name, options, 0)
  \/ NtOpenKey_Call(t, <<>>)
  \/ \E h \in Handles, Index \in 0..(MaxKeys + 1) :
       NtEnumerateKey_Call(t, h, Index, KeyBasicInformation, MaxLength)
  \/ \E h \in Handles : NtClose(t, h)

RunEnum(t) ==
  \/ InvokeAcquire(t)
  \/ InvokeWalk(t)
  \/ NtCreateKey_Find(t)
  \/ NtCreateKey_Acquire(t)
  \/ NtCreateKey_Insert(t)
  \/ NtCreateKey_PostDone(t)
  \/ NtCreateKey_Sync(t)
  \/ NtOpenKey_Find(t)
  \/ NtOpenKey_PostDone(t)
  \/ HandlePreDone(t)
  \/ HandleAcquire(t)
  \/ NtEnumerateKey_Read(t)
  \/ HandlePostDone(t)
  \/ KeyCellFault(t)
  \/ DispatcherReturn(t)

NextEnum == \E t \in KeyThreads : StartEnum(t) \/ RunEnum(t)

SpecEnum == InitKey /\ [][NextEnum]_vars

(***************************************************************************)
(* Every dispatcher with a callback registered, under one caller.          *)
(***************************************************************************)
\* keys the hive holds besides the root when every dispatcher runs
DispKeys == 1
\* handles the caller has room for when every dispatcher runs
DispHandles == 1
\* values and data cells the hive has room for when every dispatcher runs
DispValues == 1
\* the data a caller writes: n bytes, all of them c
Bytes(n, c) == [i \in 1..n |-> c]

StartDisp(t) ==
  \/ NtCreateKey_Call(t, <<"X">>, REG_OPTION_NON_VOLATILE, 0)
  \/ \E name \in {<<>>, <<"X">>} : NtOpenKey_Call(t, name)
  \/ \E h \in Handles :
       \/ NtDeleteKey_Call(t, h)
       \/ NtEnumerateKey_Call(t, h, 0, KeyBasicInformation, MaxLength)
       \/ NtEnumerateValueKey_Call(t, h, 0, KeyValuePartialInformation, MaxLength)
       \/ NtQueryKey_Call(t, h, KeyBasicInformation, MaxLength)
       \/ NtQueryValueKey_Call(t, h, "V", KeyValuePartialInformation, MaxLength)
       \/ \E c \in {"a", "b"} :
            NtSetValueKey_Call(t, h, "V", REG_SZ, Bytes(2 * SizeofHCELL_INDEX, c),
                               2 * SizeofHCELL_INDEX)
       \/ \E captured \in BOOLEAN : NtDeleteValueKey_Call(t, h, "V", captured)
       \/ NtQueryMultipleValueKey_Call(t, h, <<"V">>, MaxLength)
       \/ \E class \in {KeyWriteTimeInformation, KeyNoInformation} :
            NtSetInformationKey_Call(t, h, class, SystemTime,
                                     SizeofKEY_WRITE_TIME_INFORMATION)
       \/ NtClose(t, h)

RunDisp(t) ==
  \/ RunCallbacks(t)
  \/ NtCreateKey_Find(t)
  \/ NtCreateKey_Acquire(t)
  \/ NtCreateKey_Insert(t)
  \/ NtCreateKey_PostDone(t)
  \/ NtCreateKey_Sync(t)
  \/ NtOpenKey_Find(t)
  \/ NtOpenKey_PostDone(t)
  \/ HandlePreDone(t)
  \/ HandleFailed(t)
  \/ HandleAcquire(t)
  \/ NtDeleteKey_Mark(t)
  \/ NtEnumerateKey_Read(t)
  \/ NtEnumerateValueKey_Read(t)
  \/ NtQueryKey_Read(t)
  \/ NtQueryValueKey_Read(t)
  \/ NtSetValueKey_Set(t)
  \/ NtDeleteValueKey_Delete(t)
  \/ NtQueryMultipleValueKey_Read(t)
  \/ NtSetInformationKey_Reject(t)
  \/ NtSetInformationKey_Write(t)
  \/ HandlePostDone(t)
  \/ HandleSync(t)
  \/ KeyCellFault(t)
  \/ DispatcherReturn(t)

NextDisp == \E t \in KeyThreads : StartDisp(t) \/ RunDisp(t)

InitDisp ==
  /\ InitCallbacks(1)
  /\ InitKeys([Keys |-> DispKeys, Handles |-> DispHandles, Values |-> DispValues,
               DataCells |-> DispValues])

SpecDisp == InitDisp /\ [][NextDisp]_vars

(***************************************************************************)
(* The callback registry under concurrent callers.                         *)
(***************************************************************************)
InitCb ==
  /\ CmiCallbackHead = <<>>
  /\ CmiCallbackLock = NoThread
  /\ Callback = [a \in Addrs |-> FreeMemory]
  /\ regId = [a \in Addrs |-> NoId]
  /\ regCount = 0
  /\ unregDone = {}
  /\ pc = [t \in Threads |-> "idle"]
  /\ reg = [t \in Threads |-> NoReg]
  /\ unr = [t \in Threads |-> NoUnr]
  /\ inv = [t \in Threads |-> NoInv]
  /\ InitKeys([Keys |-> 0, Handles |-> 0, Values |-> 0, DataCells |-> 0])

\* the steps that start a call
StartCb(t) ==
  \/ RegisterAllocate(t)
  \/ RegisterNoMemory(t)
  \/ \E cookie \in Addrs : UnregisterCall(t, cookie)
  \/ InvokeCall(t)

\* the steps of a call in progress
RunCb(t) ==
  \/ RegisterAcquire(t)
  \/ RegisterInsert(t)
  \/ RegisterReturn(t)
  \/ UnregisterAcquire(t)
  \/ UnregisterScan(t)
  \/ UnregisterWait(t)
  \/ UnregisterReacquire(t)
  \/ UnregisterUnlink(t)
  \/ UnregisterFree(t)
  \/ UnregisterReturn(t)
  \/ InvokeAcquire(t)
  \/ InvokeWalk(t)
  \/ \E cookie \in Addrs : CallbackUnregisters(t, cookie)
  \/ \E status \in CallbackResults : CallbackReturns(t, status)
  \/ InvokeReacquire(t)
  \/ InvokeRelease(t)
  \/ InvokeReturn(t)

NextCb == \E t \in Threads : StartCb(t) \/ RunCb(t)

SpecCb == InitCb /\ [][NextCb]_vars

\* every call in progress keeps running: the scheduler is pre-emptive and a
\* fast mutex queues its waiters
FairSpecCb == SpecCb /\ \A t \in Threads : SF_vars(RunCb(t))

(***************************************************************************)
(* Claims about the callback registry.                                     *)
(***************************************************************************)
\* thread u is inside the function of the callback of registration id
Executing(u, id) == inv[u].pc = "call" /\ inv[u].id = id

\* C1: at the moment a CmUnRegisterCallback call returns STATUS_SUCCESS, no
\* thread is executing the function of the callback it unregistered
C1_UnregisterReturnsAfterCallback ==
  \A t \in Threads :
    (unr[t].pc = "ret" /\ unr[t].Status = STATUS_SUCCESS)
      => \A u \in Threads : ~Executing(u, unr[t].id)

\* an unregistration that had to wait for a running callback has returned
C1_Witness ==
  \E t \in Threads :
    unr[t].pc = "ret" /\ unr[t].Status = STATUS_SUCCESS /\ unr[t].blocked

\* C2: once CmUnRegisterCallback has returned STATUS_SUCCESS for a
\* registration, no thread begins to execute that registration's function
C2_NoCallAfterUnregister ==
  [][\A t \in Threads :
       (inv[t].pc # "call" /\ inv'[t].pc = "call") => inv'[t].id \notin unregDone']_vars

\* a callback function runs although an unregistration has returned before
C2_Witness ==
  \E t \in Threads : inv[t].pc = "call" /\ unregDone # {}

\* thread u is inside a callback function that called CmUnRegisterCallback
\* on the cookie of the very callback being run
SelfUnregistering(u) ==
  /\ inv[u].pc = "call"
  /\ unr[u].pc \notin {"none", "ret"}
  /\ unr[u].Cookie = inv[u].CurrentEntry

\* C4: a CmiCallRegisteredCallbacks invocation eventually completes when the
\* callback functions return and unregister at most other callbacks' cookies
C4_InvokeCompletes ==
  \A t \in Threads :
    (inv[t].pc # "none")
      ~> (inv[t].pc = "ret" \/ \E u \in Threads : SelfUnregistering(u))

\* C5: a CmUnRegisterCallback call made by a callback function on its own
\* cookie returns
C5_SelfUnregisterReturns ==
  \A t \in Threads : SelfUnregistering(t) ~> (unr[t].pc = "ret")

(***************************************************************************)
(* Claims about keys.                                                      *)
(***************************************************************************)
\* thread t runs dispatcher name and is past its work under the registry lock
Worked(t, name) ==
  pc[t] = name /\ call[t].pc \in {"post", "ret"} /\ call[t].locked

\* C7: NtDeleteKey on a key that has a stable or a volatile subkey answers
\* CANNOT_DELETE and leaves the flags of the key object alone; on a key
\* without subkeys it sets KO_MARKED_FOR_DELETE and answers SUCCESS
C7_DeleteKeyNeedsNoSubKeys ==
  \A t \in Threads :
    Worked(t, "NtDeleteKey") =>
      LET o == call[t].KeyObject
          was == call[t].before
          cell == was.Cells[was.KeyObject[o].KeyCellOffset]
      IN IF cell.SubKeyCounts[HvStable] + cell.SubKeyCounts[HvVolatile] # 0
           THEN /\ call[t].Status = STATUS_CANNOT_DELETE
                /\ KeyObject[o].Flags = was.KeyObject[o].Flags
           ELSE /\ call[t].Status = STATUS_SUCCESS
                /\ KO_MARKED_FOR_DELETE \in KeyObject[o].Flags

\* NtDeleteKey succeeds on a key it refused while the key had a subkey
C7_Witness ==
  \E t \in Threads :
    /\ Worked(t, "NtDeleteKey")
    /\ call[t].pc = "ret"
    /\ call[t].Status = STATUS_SUCCESS
    /\ call[t].before.KeyObject[call[t].KeyObject].Refused
    /\ KO_MARKED_FOR_DELETE \notin call[t].before.KeyObject[call[t].KeyObject].Flags

\* the key object the name of the call led to when the call started, if the
\* name led exactly to a key that has one
ResolvedExactly(f, o) ==
  LET r == CmiWalk(f.before.Cells, RootCell, f.ObjectName)
  IN /\ r.rest = <<>>
     /\ f.before.KeyObject[o].Allocated
     /\ f.before.KeyObject[o].KeyCellOffset = r.cell

\* a key object marked for delete to which a handle is open
Tombstone(ko) ==
  ko.Allocated /\ KO_MARKED_FOR_DELETE \in ko.Flags /\ ko.HandleCount > 0

\* C8: while a handle to a key marked for delete is open, an NtOpenKey or
\* NtCreateKey that resolves exactly to the key answers UNSUCCESSFUL and
\* issues no handle, and the open handles stay usable: the key object they
\* name is not freed and NtEnumerateKey through them finds the key
C8_TombstoneRefusesOpens ==
  /\ \A t \in Threads : \A o \in ObjIds :
       ( /\ pc[t] \in {"NtOpenKey", "NtCreateKey"}
         /\ call[t].pc = "ret"
         /\ ResolvedExactly(call[t], o)
         /\ Tombstone(call[t].before.KeyObject[o]) )
       => /\ call[t].Status = STATUS_UNSUCCESSFUL
          /\ call[t].KeyHandle = NoHandle
          /\ HandleTable = call[t].before.HandleTable
  /\ \A h \in Handles :
       ( /\ HandleTable[h] # NoObject
         /\ KO_MARKED_FOR_DELETE \in KeyObject[HandleTable[h]].Flags )
       => KeyObject[HandleTable[h]].Allocated
  /\ \A t \in Threads :
       ( /\ pc[t] = "NtEnumerateKey"
         /\ call[t].pc = "ret"
         /\ HandleTable[call[t].KeyHandle] # NoObject
         /\ KO_MARKED_FOR_DELETE \in KeyObject[HandleTable[call[t].KeyHandle]].Flags )
       => call[t].Status \in {STATUS_SUCCESS, STATUS_NO_MORE_ENTRIES}

\* a name without one leading and one trailing backslash
Stripped(p) ==
  LET a == IF p # <<>> /\ Head(p) = Backslash THEN Tail(p) ELSE p
  IN IF a # <<>> /\ a[Len(a)] = Backslash THEN SubSeq(a, 1, Len(a) - 1) ELSE a

\* the key cells in use that were free when the call started
NewCells(f) == {c \in CellIds : Cells[c].InUse /\ ~f.before.Cells[c].InUse}

\* C9: an NtCreateKey whose name leaves a non-empty remaining path answers
\* OBJECT_NAME_NOT_FOUND and creates nothing when the path, less one leading
\* and one trailing backslash, holds a backslash; otherwise it does not
\* reject the name, and when it succeeds it has created exactly one key,
\* under the key the walk reached, named by the stripped path
C9_CreateKeyRemainingPath ==
  \A t \in Threads :
    (pc[t] = "NtCreateKey" /\ call[t].pc = "ret") =>
      LET f == call[t]
          r == CmiWalk(f.before.Cells, RootCell, f.ObjectName)
          name == Stripped(r.rest)
      IN r.rest # <<>> =>
           IF \E i \in 1..Len(name) : name[i] = Backslash
             THEN /\ f.Status = STATUS_OBJECT_NAME_NOT_FOUND
                  /\ Cells = f.before.Cells
                  /\ HandleTable = f.before.HandleTable
                  /\ \A o \in ObjIds :
                       KeyObject[o].Allocated = f.before.KeyObject[o].Allocated
             ELSE /\ f.Status # STATUS_OBJECT_NAME_NOT_FOUND
                  /\ f.Status # STATUS_SUCCESS => Cells = [c \in DOMAIN Cells |->
                       IF c \in NewCells(f) THEN Cells[c] ELSE f.before.Cells[c]]
                       /\ NewCells(f) = {}
                  /\ f.Status = STATUS_SUCCESS =>
                       /\ f.Disposition = REG_CREATED_NEW_KEY
                       /\ Cardinality(NewCells(f)) = 1
                       /\ \A c \in NewCells(f) :
                            /\ Cells[c].Name = name
                            /\ Cells[c].Parent = r.cell
                            /\ c \in {SubKeys(Cells, r.cell)[i] :
                                        i \in 1..Len(SubKeys(Cells, r.cell))}
                            /\ KeyObject[f.KeyObject].KeyCellOffset = c
                       /\ KeyObject[f.KeyObject].Name = name
                       /\ HandleTable[f.KeyHandle] = f.KeyObject

\* the name "\X\" has created the key X
C9_Witness ==
  \E t \in Threads :
    /\ pc[t] = "NtCreateKey"
    /\ call[t].pc = "ret"
    /\ call[t].ObjectName = <<Backslash, "X", Backslash>>
    /\ call[t].Status = STATUS_SUCCESS
    /\ call[t].Disposition = REG_CREATED_NEW_KEY
    /\ KeyObject[call[t].KeyObject].Name = <<"X">>

\* the subkeys of key cell k: the key cells whose parent it is
SubKeysOf(k) == {c \in CellIds : Cells[c].InUse /\ Cells[c].Parent = k}

\* C10: NtEnumerateKey answers NO_MORE_ENTRIES for an index at or past the
\* stable plus the volatile subkey count, the stable subkey at the index for
\* an index below the stable count, and the volatile subkey at the index less
\* the stable count otherwise; over the indexes below the total every subkey
\* of the key is answered exactly once
C10_EnumerateKeyOrder ==
  /\ \A t \in Threads :
       Worked(t, "NtEnumerateKey") =>
         LET cell == Cells[KeyObject[call[t].KeyObject].KeyCellOffset]
             ns == cell.SubKeyCounts[HvStable]
             nv == cell.SubKeyCounts[HvVolatile]
             i == call[t].Index
         IN IF i >= ns + nv
              THEN /\ call[t].Status = STATUS_NO_MORE_ENTRIES
                   /\ call[t].SubKeyCell = HCELL_NULL
            ELSE /\ call[t].Status = STATUS_SUCCESS
                 /\ call[t].SubKeyCell =
                      IF i < ns THEN cell.SubKeyLists[HvStable][i + 1]
                      ELSE cell.SubKeyLists[HvVolatile][i - ns + 1]
                 /\ Cells[call[t].SubKeyCell].Storage =
                      IF i < ns THEN HvStable ELSE HvVolatile
  /\ \A k \in CellIds :
       Cells[k].InUse =>
         LET total == Cells[k].SubKeyCounts[HvStable] + Cells[k].SubKeyCounts[HvVolatile]
             answer == [i \in 0..(total - 1) |-> NtEnumerateKey_SubKey(Cells[k], i)]
         IN /\ {answer[i] : i \in 0..(total - 1)} = SubKeysOf(k)
            /\ \A i, j \in 0..(total - 1) : answer[i] = answer[j] => i = j

\* a volatile subkey is answered at an index past a stable one
C10_Witness ==
  \E t \in Threads :
    /\ Worked(t, "NtEnumerateKey")
    /\ call[t].pc = "ret"
    /\ call[t].Status = STATUS_SUCCESS
    /\ call[t].Index > 0
    /\ Cells[call[t].SubKeyCell].Storage = HvVolatile

(***************************************************************************)
(* Claims about the dispatchers and their callbacks.                       *)
(***************************************************************************)
\* C3: no callback function runs while the thread that invoked it holds
\* CmiCallbackLock or CmiRegistryLock: the pre-callback is invoked before the
\* registry lock is taken, the post-callback and CmiSyncHives after it is
\* released
C3_CallbacksOutsideLocks ==
  \A t \in Threads :
    /\ inv[t].pc = "call" => (CmiCallbackLock # t /\ ~HoldsRegistryLock(t))
    /\ (inv[t].pc # "none" /\ call[t].pc = "pre") => ~call[t].locked
    /\ (inv[t].pc # "none" /\ call[t].postCalls > 0) => ~HoldsRegistryLock(t)
    /\ call[t].pc = "sync" => (CmiCallbackLock # t /\ ~HoldsRegistryLock(t))

\* the post-callback of an NtSetValueKey that worked under the registry lock
\* is running
C3_Witness ==
  \E t \in Threads :
    /\ pc[t] = "NtSetValueKey"
    /\ inv[t].pc = "call"
    /\ call[t].locked
    /\ call[t].postCalls = 1

\* the pre-callback of the call of thread t has returned a failure status
PreCallbackFailed(t) ==
  /\ call[t].preCalls = 1
  /\ call[t].preStatus # NoStatus
  /\ ~NT_SUCCESS(call[t].preStatus)

\* C6: when the pre-callback of a dispatcher returns a failure status, the
\* registry lock is never acquired, the post-callback is invoked exactly once
\* with that status, that status is returned, and the hive, the key objects
\* and the handles are what they were when the call began
C6_PreCallbackFailureSkips ==
  \A t \in Threads :
    PreCallbackFailed(t) =>
      /\ ~call[t].locked
      /\ ~HoldsRegistryLock(t)
      /\ Cells = call[t].before.Cells
      /\ HandleTable = call[t].before.HandleTable
      /\ call[t].postCalls = 1
      /\ call[t].postStatus = call[t].preStatus
      /\ call[t].Status = call[t].preStatus
      /\ call[t].pc = "ret" => KeyObject = call[t].before.KeyObject

\* an NtSetValueKey whose pre-callback failed has returned and the value it
\* was to replace is still there
C6_Witness ==
  \E t \in Threads :
    /\ pc[t] = "NtSetValueKey"
    /\ call[t].pc = "ret"
    /\ PreCallbackFailed(t)
    /\ KeyObject[call[t].KeyObject].KeyCellOffset # HCELL_NULL
    /\ LET KeyCell == Cells[KeyObject[call[t].KeyObject].KeyCellOffset]
           found == CmiScanKeyForValue(KeyCell, call[t].ValueName)
       IN /\ found # 0
          /\ ValueData(Cells, KeyCell.Values[found], KeyCell.Values[found].DataSize)
               # call[t].Data

(***************************************************************************)
(* The information classes with every buffer length, under one caller.     *)
(***************************************************************************)
\* keys the hive holds besides the root, and handles and values there is
\* room for, when buffer lengths are explored
InfoKeys == 1
InfoHandles == 1
InfoValues == 1
\* the length in bytes of the class string a key is created with
ClassSizes == {0, 2}
\* the names and the data sizes of the values written
ValueNames == {"V", "VV"}
DataSizes == {SizeofHCELL_INDEX, SizeofHCELL_INDEX + 2}
KeyClasses == {KeyBasicInformation, KeyNodeInformation, KeyFullInformation}
ValueClasses == {KeyValueBasicInformation, KeyValuePartialInformation,
                 KeyValueFullInformation}

\* NtEnumerateKey and NtEnumerateValueKey; the caller writes values to the
\* root key only
StartEnumInfo(t) ==
  \/ \E Class \in ClassSizes : NtCreateKey_Call(t, <<"X">>, REG_OPTION_NON_VOLATILE, Class)
  \/ NtOpenKey_Call(t, <<>>)
  \/ \E h \in Handles :
       \/ \E name \in ValueNames, n \in DataSizes :
            /\ HandleTable[h] = RootKey
            /\ NtSetValueKey_Call(t, h, name, REG_SZ, Bytes(n, "a"), n)
       \/ \E class \in KeyClasses, Length \in 0..MaxLength :
            NtEnumerateKey_Call(t, h, 0, class, Length)
       \/ \E class \in ValueClasses, Length \in 0..MaxLength :
            NtEnumerateValueKey_Call(t, h, 0, class, Length)
       \/ NtClose(t, h)

RunEnumInfo(t) ==
  \/ InvokeAcquire(t)
  \/ InvokeWalk(t)
  \/ NtCreateKey_Find(t)
  \/ NtCreateKey_Acquire(t)
  \/ NtCreateKey_Insert(t)
  \/ NtCreateKey_PostDone(t)
  \/ NtCreateKey_Sync(t)
  \/ NtOpenKey_Find(t)
  \/ NtOpenKey_PostDone(t)
  \/ HandlePreDone(t)
  \/ HandleAcquire(t)
  \/ NtEnumerateKey_Read(t)
  \/ NtEnumerateValueKey_Read(t)
  \/ NtSetValueKey_Set(t)
  \/ HandlePostDone(t)
  \/ HandleSync(t)
  \/ DispatcherReturn(t)

NextEnumInfo == \E t \in KeyThreads : StartEnumInfo(t) \/ RunEnumInfo(t)

InitInfo ==
  /\ InitCallbacks(0)
  /\ InitKeys([Keys |-> InfoKeys, Handles |-> InfoHandles, Values |-> InfoValues,
               DataCells |-> InfoValues])

SpecEnumInfo == InitInfo /\ [][NextEnumInfo]_vars

\* the offset of the variable part of an information class
HeaderOf(class) ==
  CASE class = KeyBasicInformation -> KeyBasicHeader
    [] class = KeyNodeInformation -> KeyNodeHeader
    [] class = KeyFullInformation -> KeyFullHeader
    [] class = KeyValueBasicInformation -> KeyValueBasicHeader
    [] class = KeyValuePartialInformation -> KeyValuePartialHeader
    [] class = KeyValueFullInformation -> KeyValueFullHeader

\* the size of the whole answer about a key with that name and class string
RequiredOfKey(class, NameBytes, ClassBytes) ==
  CASE class = KeyBasicInformation -> KeyBasicHeader + NameBytes
    [] class = KeyNodeInformation -> KeyNodeHeader + NameBytes + ClassBytes
    [] class = KeyFullInformation -> KeyFullHeader + ClassBytes

\* the size of the whole answer about a value
RequiredOfValue(class, ValueCell) ==
  CASE class = KeyValueBasicInformation ->
         KeyValueBasicHeader + 2 * Len(ValueCell.Name)
    [] class = KeyValuePartialInformation ->
         KeyValuePartialHeader + ValueCell.DataSize
    [] class = KeyValueFullInformation ->
         ROUND_UP(KeyValueFullHeader + 2 * Len(ValueCell.Name), SizeofPVOID)
           + ValueCell.DataSize

\* the buffer discipline: the status and *ResultLength a call with that
\* frame must have left for an answer of `required` bytes
BufferDiscipline(f, required) ==
  /\ f.Status = STATUS_BUFFER_TOO_SMALL <=> f.Length < HeaderOf(f.KeyInformationClass)
  /\ f.Status = STATUS_BUFFER_OVERFLOW <=>
       (f.Length >= HeaderOf(f.KeyInformationClass) /\ f.Length < required)
  /\ f.Status = STATUS_SUCCESS <=> f.Length >= required
  /\ f.ResultLength = required

\* the key cell under the handle of a call that has come to its return
Returned(t, name) ==
  /\ pc[t] = name
  /\ call[t].pc = "ret"
  /\ call[t].KeyObject # NoObject
  /\ KeyObject[call[t].KeyObject].KeyCellOffset # HCELL_NULL

\* C11: NtEnumerateKey (Basic, Node, Full) and NtEnumerateValueKey (Basic,
\* Partial, Full) on an existing entry answer BUFFER_TOO_SMALL exactly when
\* Length is below the header of the class, BUFFER_OVERFLOW exactly when the
\* header fits and Length is below the required size, SUCCESS otherwise,
\* and *ResultLength is the required size
C11_EnumerateBufferDiscipline ==
  \A t \in Threads :
    /\ (Returned(t, "NtEnumerateKey") /\ call[t].KeyInformationClass \in KeyClasses) =>
         LET f == call[t]
             KeyCell == Cells[KeyObject[f.KeyObject].KeyCellOffset]
             subkeys == KeyCell.SubKeyLists[HvStable] \o KeyCell.SubKeyLists[HvVolatile]
         IN f.Index < Len(subkeys) =>
              BufferDiscipline(f, RequiredOfKey(f.KeyInformationClass,
                                                2 * Len(Cells[subkeys[f.Index + 1]].Name),
                                                Cells[subkeys[f.Index + 1]].ClassSize))
    /\ (Returned(t, "NtEnumerateValueKey") /\ call[t].KeyInformationClass \in ValueClasses) =>
         LET f == call[t]
             KeyCell == Cells[KeyObject[f.KeyObject].KeyCellOffset]
         IN f.Index < Len(KeyCell.Values) =>
              BufferDiscipline(f, RequiredOfValue(f.KeyInformationClass,
                                                  KeyCell.Values[f.Index + 1]))

\* a value whose name ends off a pointer boundary was enumerated with class
\* Full into a buffer that holds the name and a part of the data
C11_Witness ==
  \E t \in Threads :
    /\ Returned(t, "NtEnumerateValueKey")
    /\ call[t].KeyInformationClass = KeyValueFullInformation
    /\ call[t].Status = STATUS_BUFFER_OVERFLOW
    /\ call[t].Info # <<>>
    /\ call[t].Info.Copied > 0
    /\ call[t].Info.DataOffset > KeyValueFullHeader + call[t].Info.NameLength

(***************************************************************************)
(* NtQueryKey over the information classes and the buffer lengths          *)
(***************************************************************************)
StartQueryKey(t) ==
  \/ \E Class \in ClassSizes : NtCreateKey_Call(t, <<"X">>, REG_OPTION_NON_VOLATILE, Class)
  \/ NtOpenKey_Call(t, <<>>)
  \/ \E h \in Handles :
       \/ \E class \in KeyClasses \cup {KeyNameInformation}, Length \in 0..MaxLength :
            NtQueryKey_Call(t, h, class, Length)
       \/ NtClose(t, h)

RunQueryKey(t) ==
  \/ InvokeAcquire(t)
  \/ InvokeWalk(t)
  \/ NtCreateKey_Find(t)
  \/ NtCreateKey_Acquire(t)
  \/ NtCreateKey_Insert(t)
  \/ NtCreateKey_PostDone(t)
  \/ NtCreateKey_Sync(t)
  \/ NtOpenKey_Find(t)
  \/ NtOpenKey_PostDone(t)
  \/ HandlePreDone(t)
  \/ HandleAcquire(t)
  \/ NtQueryKey_Read(t)
  \/ HandlePostDone(t)
  \/ DispatcherReturn(t)

NextQueryKey == \E t \in KeyThreads : StartQueryKey(t) \/ RunQueryKey(t)

SpecQueryKey == InitInfo /\ [][NextQueryKey]_vars

\* C12: NtQueryKey with classes Basic, Node and Full answers
\* BUFFER_TOO_SMALL exactly when Length is below the header of the class,
\* BUFFER_OVERFLOW exactly when the header fits and Length is below the
\* required size, SUCCESS otherwise, and *ResultLength is always the full
\* required size
C12_QueryKeyBufferDiscipline ==
  \A t \in Threads :
    (Returned(t, "NtQueryKey") /\ call[t].KeyInformationClass \in KeyClasses) =>
      LET f == call[t]
          KeyObj == KeyObject[f.KeyObject]
      IN BufferDiscipline(f, RequiredOfKey(f.KeyInformationClass, 2 * Len(KeyObj.Name),
                                           Cells[KeyObj.KeyCellOffset].ClassSize))

(***************************************************************************)
(* NtQueryValueKey over the information classes and the buffer lengths     *)
(***************************************************************************)
StartQueryValue(t) ==
  \/ NtOpenKey_Call(t, <<>>)
  \/ \E h \in Handles :
       \/ \E name \in ValueNames, n \in DataSizes :
            NtSetValueKey_Call(t, h, name, REG_SZ, Bytes(n, "a"), n)
       \/ \E name \in ValueNames, class \in ValueClasses, Length \in 0..MaxLength :
            NtQueryValueKey_Call(t, h, name, class, Length)
       \/ NtClose(t, h)

RunQueryValue(t) ==
  \/ InvokeAcquire(t)
  \/ InvokeWalk(t)
  \/ NtOpenKey_Find(t)
  \/ NtOpenKey_PostDone(t)
  \/ HandlePreDone(t)
  \/ HandleAcquire(t)
  \/ NtQueryValueKey_Read(t)
  \/ NtSetValueKey_Set(t)
  \/ HandlePostDone(t)
  \/ HandleSync(t)
  \/ DispatcherReturn(t)

NextQueryValue == \E t \in KeyThreads : StartQueryValue(t) \/ RunQueryValue(t)

SpecQueryValue == InitInfo /\ [][NextQueryValue]_vars

\* C13: NtQueryValueKey with classes Basic, Partial and Full on an existing
\* value answers BUFFER_TOO_SMALL exactly when Length is below the header,
\* BUFFER_OVERFLOW exactly when the header fits and Length is below the
\* required size, SUCCESS otherwise, with *ResultLength the required size;
\* for Full that size is the header plus the name rounded up to the pointer
\* size, plus the data
C13_QueryValueBufferDiscipline ==
  \A t \in Threads :
    (Returned(t, "NtQueryValueKey") /\ call[t].KeyInformationClass \in ValueClasses) =>
      LET f == call[t]
          KeyCell == Cells[KeyObject[f.KeyObject].KeyCellOffset]
          found == CmiScanKeyForValue(KeyCell, f.ValueName)
      IN found # 0 =>
           BufferDiscipline(f, RequiredOfValue(f.KeyInformationClass, KeyCell.Values[found]))

(***************************************************************************)
(* Sequences of NtSetValueKey on the root key: data on both sides of       *)
(* sizeof(HCELL_INDEX), growing and shrinking, in a hive with room for     *)
(* SetDataCells data cells                                                 *)
(***************************************************************************)
SetValues == 2
SetDataCells == 2
WriteSizes == {0, SizeofHCELL_INDEX, SizeofHCELL_INDEX + 1, 2 * SizeofHCELL_INDEX}
WriteTypes == {REG_SZ, REG_LINK}

StartSetValue(t) ==
  \/ NtOpenKey_Call(t, <<>>)
  \/ \E h \in Handles :
       \/ \E name \in ValueNames, n \in WriteSizes, type \in WriteTypes, c \in {"a", "b"} :
            NtSetValueKey_Call(t, h, name, type, Bytes(n, c), n)
       \/ NtClose(t, h)

RunSetValue(t) ==
  \/ InvokeAcquire(t)
  \/ InvokeWalk(t)
  \/ NtOpenKey_Find(t)
  \/ NtOpenKey_PostDone(t)
  \/ HandlePreDone(t)
  \/ HandleAcquire(t)
  \/ NtSetValueKey_Set(t)
  \/ HandlePostDone(t)
  \/ HandleSync(t)
  \/ DispatcherReturn(t)

NextSetValue == \E t \in KeyThreads : StartSetValue(t) \/ RunSetValue(t)

InitSetValue ==
  /\ InitCallbacks(0)
  /\ InitKeys([Keys |-> 0, Handles |-> InfoHandles, Values |-> SetValues,
               DataCells |-> SetDataCells])

SpecSetValue == InitSetValue /\ [][NextSetValue]_vars

\* what NtQueryValueKey of class Partial with a buffer of MaxLength bytes
\* answers about a value
QueryPartial(ValueCell) ==
  NtQueryValueKey_Info(Cells, [NoCall EXCEPT !.KeyInformationClass = KeyValuePartialInformation,
                                             !.Length = MaxLength],
                       ValueCell)

\* C14: when NtSetValueKey(k, n, t, d) has returned success, NtQueryValueKey
\* (k, n, Partial) with a large enough buffer answers exactly type t,
\* DataLength len(d) and the bytes d
C14_SetThenQueryRoundTrip ==
  \A t \in Threads :
    (Returned(t, "NtSetValueKey") /\ call[t].Status = STATUS_SUCCESS) =>
      LET f == call[t]
          KeyCell == Cells[KeyObject[f.KeyObject].KeyCellOffset]
          found == CmiScanKeyForValue(KeyCell, f.ValueName)
      IN /\ found # 0
         /\ QueryPartial(KeyCell.Values[found]).Status = STATUS_SUCCESS
         /\ QueryPartial(KeyCell.Values[found]).Info.Type = f.Type
         /\ QueryPartial(KeyCell.Values[found]).Info.DataLength = f.DataSize
         /\ QueryPartial(KeyCell.Values[found]).Info.Data = SubSeq(f.Data, 1, f.DataSize)

\* the same round trip for the calls that stored their data: the calls
\* whose data cell allocation did not fail
StoredRoundTrip ==
  \A t \in Threads :
    (Returned(t, "NtSetValueKey") /\ call[t].Status = STATUS_SUCCESS /\ call[t].sync) =>
      LET f == call[t]
          KeyCell == Cells[KeyObject[f.KeyObject].KeyCellOffset]
          found == CmiScanKeyForValue(KeyCell, f.ValueName)
      IN /\ found # 0
         /\ QueryPartial(KeyCell.Values[found]).Status = STATUS_SUCCESS
         /\ QueryPartial(KeyCell.Values[found]).Info.Type = f.Type
         /\ QueryPartial(KeyCell.Values[found]).Info.DataLength = f.DataSize
         /\ QueryPartial(KeyCell.Values[found]).Info.Data = SubSeq(f.Data, 1, f.DataSize)

\* the value cells of the hive
ValueCells == {Cells[k].Values[i] : <<k, i>> \in {x \in CellIds \X (1..SetValues) :
                                                  /\ Cells[x[1]].InUse
                                                  /\ x[2] <= Len(Cells[x[1]].Values)}}

\* a value cell some NtSetValueKey stored data in; CmiAddValueToKey alone
\* leaves NewValue
Written(ValueCell) == ValueCell # NewValue(ValueCell.Name)

Referenced == {v.DataOffset : v \in {w \in ValueCells : ~w.InOffset /\ w.DataOffset # HCELL_NULL}}

\* the step of NtSetValueKey under the registry lock of a thread whose key
\* has a cell
SetStep(t) ==
  /\ pc[t] = "NtSetValueKey"
  /\ call[t].pc = "locked"
  /\ call'[t].pc # "locked"
  /\ KeyCellOf(t) # HCELL_NULL

\* the data cell the value of that call has before the call, HCELL_NULL for
\* a new value
OldDataCell(t) ==
  LET KeyCell == Cells[KeyCellOf(t)]
      found == CmiScanKeyForValue(KeyCell, call[t].ValueName)
  IN IF found = 0 THEN HCELL_NULL ELSE DataCellOf(KeyCell.Values[found])

\* that call can have a value cell: the value exists or the key has room
HasValueCell(t) ==
  \/ CmiScanKeyForValue(Cells[KeyCellOf(t)], call[t].ValueName) # 0
  \/ Len(Cells[KeyCellOf(t)].Values) < budget.Values

\* what one NtSetValueKey does to the data cells
SetStepCells(t) ==
  LET DataSize == call[t].DataSize
      old == OldDataCell(t)
      oldSize == IF old = HCELL_NULL THEN 0 ELSE Cells[old].Size
  IN SetStep(t) /\ HasValueCell(t) =>
       /\ DataSize <= SizeofHCELL_INDEX =>
            DataCells(Cells') = DataCells(Cells) \ {old}
       /\ (DataSize > SizeofHCELL_INDEX /\ DataSize > oldSize
             /\ HvAllocateCell(Cells) # HCELL_NULL) =>
            \E new \in DataIds \ DataCells(Cells) :
              DataCells(Cells') = (DataCells(Cells) \ {old}) \cup {new}
       /\ (DataSize > SizeofHCELL_INDEX /\ DataSize <= oldSize) =>
            DataCells(Cells') = DataCells(Cells)

\* C16: after any sequence of NtSetValueKey calls the data cells allocated
\* and not freed are exactly those a value with REG_DATA_IN_OFFSET clear
\* refers to; a write of at most sizeof(HCELL_INDEX) bytes allocates none
\* and frees the data cell the value had, a write larger than the data cell
\* of the value allocates a new cell and frees the old one, any other write
\* reuses the cell and allocates and frees nothing
C16_DataCellsExactlyReferenced ==
  /\ [](DataCells(Cells) = Referenced)
  /\ [][\A t \in Threads : SetStepCells(t)]_vars

\* both data cells are in use and a value that had one has just been
\* written with more bytes than its cell held: the second cell is the new
\* one and the first cell is free again
C16_Witness ==
  /\ \E t \in Threads :
       /\ Returned(t, "NtSetValueKey")
       /\ call[t].DataSize = 2 * SizeofHCELL_INDEX
       /\ call[t].sync
  /\ \E v \in ValueCells : ~v.InOffset /\ v.DataSize = 2 * SizeofHCELL_INDEX
                             /\ v.DataOffset # Least(DataIds)
  /\ ~Cells[Least(DataIds)].InUse
  /\ Cardinality(ValueCells) = 1

(***************************************************************************)
(* NtSetInformationKey with one registered callback                        *)
(***************************************************************************)
\* the times and the lengths a caller passes
WriteTimes == {2, 3}
InformationLengths == {SizeofKEY_WRITE_TIME_INFORMATION, SizeofKEY_WRITE_TIME_INFORMATION + 4}

StartSetInfo(t) ==
  \/ NtCreateKey_Call(t, <<"X">>, REG_OPTION_NON_VOLATILE, 0)
  \/ NtOpenKey_Call(t, <<>>)
  \/ \E h \in Handles :
       \/ \E class \in {KeyWriteTimeInformation, KeyNoInformation},
             time \in WriteTimes, length \in InformationLengths :
            NtSetInformationKey_Call(t, h, class, time, length)
       \/ NtClose(t, h)

RunSetInfo(t) ==
  \/ RunCallbacks(t)
  \/ NtCreateKey_Find(t)
  \/ NtCreateKey_Acquire(t)
  \/ NtCreateKey_Insert(t)
  \/ NtCreateKey_PostDone(t)
  \/ NtCreateKey_Sync(t)
  \/ NtOpenKey_Find(t)
  \/ NtOpenKey_PostDone(t)
  \/ HandlePreDone(t)
  \/ HandleFailed(t)
  \/ HandleAcquire(t)
  \/ NtSetInformationKey_Reject(t)
  \/ NtSetInformationKey_Write(t)
  \/ HandlePostDone(t)
  \/ HandleSync(t)
  \/ DispatcherReturn(t)

NextSetInfo == \E t \in KeyThreads : StartSetInfo(t) \/ RunSetInfo(t)

SpecSetInfo == InitDisp /\ [][NextSetInfo]_vars

\* the request of the call of thread t is one NtSetInformationKey accepts
Accepted(t) ==
  /\ call[t].KeyInformationClass = KeyWriteTimeInformation
  /\ call[t].Length = SizeofKEY_WRITE_TIME_INFORMATION

\* NtSetInformationKey of thread t has come to its return after a
\* successful pre-callback
SetInfoReturned(t) ==
  /\ Returned(t, "NtSetInformationKey")
  /\ call[t].preCalls = 1
  /\ NT_SUCCESS(call[t].preStatus)

\* C17: after a successful pre-callback NtSetInformationKey changes the
\* last write time of the key and marks its cell dirty only when the class
\* is KeyWriteTimeInformation and the length is
\* sizeof(KEY_WRITE_TIME_INFORMATION); otherwise the key is unchanged and the
\* post-callback receives INVALID_INFO_CLASS or INFO_LENGTH_MISMATCH; in all
\* of these cases the call returns SUCCESS
C17_SetInformationKeyOutcome ==
  /\ [](\A t \in Threads :
          SetInfoReturned(t) =>
            /\ call[t].Status = STATUS_SUCCESS
            /\ call[t].postCalls = 1
            /\ Accepted(t) =>
                 /\ call[t].postStatus = STATUS_SUCCESS
                 /\ Cells[KeyCellOf(t)].LastWriteTime = call[t].LastWriteTime
                 /\ Cells[KeyCellOf(t)].Dirty
            /\ call[t].KeyInformationClass # KeyWriteTimeInformation =>
                 call[t].postStatus = STATUS_INVALID_INFO_CLASS
            /\ (call[t].KeyInformationClass = KeyWriteTimeInformation /\ ~Accepted(t)) =>
                 call[t].postStatus = STATUS_INFO_LENGTH_MISMATCH)
  /\ [][\A t \in Threads :
          (pc[t] = "NtSetInformationKey" /\ Cells' # Cells) =>
            /\ Accepted(t)
            /\ NT_SUCCESS(call[t].preStatus)]_vars

\* a request of the right class and the wrong length has returned SUCCESS
\* from a key that an earlier request has written
C17_Witness ==
  \E t \in Threads :
    /\ SetInfoReturned(t)
    /\ call[t].KeyInformationClass = KeyWriteTimeInformation
    /\ call[t].Length # SizeofKEY_WRITE_TIME_INFORMATION
    /\ call[t].postStatus = STATUS_INFO_LENGTH_MISMATCH
    /\ call[t].Status = STATUS_SUCCESS
    /\ Cells[KeyCellOf(t)].Dirty
    /\ Cells[KeyCellOf(t)].LastWriteTime \in WriteTimes
    /\ Cells[KeyCellOf(t)].LastWriteTime # call[t].LastWriteTime

(***************************************************************************)
(* NtInitializeRegistry under concurrent callers                           *)
(***************************************************************************)
\* what CmiInitHives may answer
InitHivesResults == {STATUS_SUCCESS, STATUS_UNSUCCESSFUL}

NextBoot ==
  \E t \in Threads :
    \/ \E SetUpBoot \in BOOLEAN : NtInitializeRegistry_Call(t, SetUpBoot)
    \/ NtInitializeRegistry_Check(t)
    \/ NtInitializeRegistry_SaveBootLog(t)
    \/ \E Status \in InitHivesResults : NtInitializeRegistry_InitHives(t, Status)
    \/ NtInitializeRegistry_SetInitialized(t)
    \/ DispatcherReturn(t)

SpecBoot == InitCb /\ [][NextBoot]_vars

\* C18: in any interleaving of NtInitializeRegistry calls the boot log is
\* saved and CmiInitHives is called by at most one call, and every other
\* call returns ACCESS_DENIED, also when CmiInitHives failed
C18_InitializeOnce ==
  /\ bootWork.Saved <= 1
  /\ bootWork.InitHives <= 1
  /\ \A t \in Threads :
       (pc[t] = "NtInitializeRegistry" /\ call[t].pc = "ret"
          /\ call[t].Status # STATUS_ACCESS_DENIED) =>
         \A u \in Threads \ {t} :
           (pc[u] = "NtInitializeRegistry" /\ call[u].pc = "ret") =>
             call[u].Status = STATUS_ACCESS_DENIED

\* the calls that begin after a call has set the flag are refused, whatever
\* CmiInitHives answered: a refused call has done nothing
RefusedOnceInitialized ==
  [][\A t \in Threads :
       (pc[t] = "NtInitializeRegistry" /\ call[t].pc = "check" /\ CmiRegistryInitialized
          /\ call'[t].pc # "check") =>
         /\ call'[t].pc = "ret"
         /\ call'[t].Status = STATUS_ACCESS_DENIED
         /\ bootWork' = bootWork]_vars

(***************************************************************************)
(* NtQueryMultipleValueKey over lists of names and buffer lengths          *)
(***************************************************************************)
MultiLength == 16
\* the data sizes of the values of the key: off the pointer size
MultiSizes == {SizeofHCELL_INDEX - 2, SizeofHCELL_INDEX + 1}
\* the lists of names asked for
ValueLists == {<<>>} \cup {<<n>> : n \in ValueNames}
                \cup {<<n, m>> : <<n, m>> \in ValueNames \X ValueNames}

StartMulti(t) ==
  \/ NtOpenKey_Call(t, <<>>)
  \/ \E h \in Handles :
       \/ \E name \in ValueNames, n \in MultiSizes :
            NtSetValueKey_Call(t, h, name, REG_SZ, Bytes(n, "a"), n)
       \/ \E list \in ValueLists, Length \in 0..MultiLength :
            NtQueryMultipleValueKey_Call(t, h, list, Length)
       \/ NtClose(t, h)

RunMulti(t) ==
  \/ InvokeAcquire(t)
  \/ InvokeWalk(t)
  \/ NtOpenKey_Find(t)
  \/ NtOpenKey_PostDone(t)
  \/ HandlePreDone(t)
  \/ HandleAcquire(t)
  \/ NtSetValueKey_Set(t)
  \/ NtQueryMultipleValueKey_Read(t)
  \/ HandlePostDone(t)
  \/ HandleSync(t)
  \/ DispatcherReturn(t)

NextMulti == \E t \in KeyThreads : StartMulti(t) \/ RunMulti(t)

SpecMulti == InitSetValue /\ [][NextMulti]_vars

RECURSIVE AlignedTotal(_, _, _)
\* the bytes the data of the first n names take when the data of each name
\* starts on a pointer boundary
AlignedTotal(KeyCell, ValueList, n) ==
  IF n = 0 THEN 0
  ELSE ROUND_UP(AlignedTotal(KeyCell, ValueList, n - 1), SizeofPVOID)
         + KeyCell.Values[CmiScanKeyForValue(KeyCell, ValueList[n])].DataSize

\* the places in the list of the names the key has no value for
Missing(KeyCell, ValueList) ==
  {i \in 1..Len(ValueList) : CmiScanKeyForValue(KeyCell, ValueList[i]) = 0}

\* C19: when every name asked for exists NtQueryMultipleValueKey returns
\* SUCCESS, with Type, DataLength and DataOffset of every entry filled,
\* exactly when the pointer-aligned total of the data lengths fits in
\* *Length, and BUFFER_TOO_SMALL otherwise, with *ReturnLength the total
\* required in both cases; at the first name that does not exist it returns
\* OBJECT_NAME_NOT_FOUND and no later entry is processed
C19_QueryMultipleOutcome ==
  \A t \in Threads :
    Returned(t, "NtQueryMultipleValueKey") =>
      LET f == call[t]
          KeyCell == Cells[KeyObject[f.KeyObject].KeyCellOffset]
          n == Len(f.ValueList)
          total == AlignedTotal(KeyCell, f.ValueList, n)
      IN IF Missing(KeyCell, f.ValueList) = {}
           THEN /\ f.Status = IF total <= f.BufferLength THEN STATUS_SUCCESS
                              ELSE STATUS_BUFFER_TOO_SMALL
                /\ f.ResultLength = total
                /\ f.Status = STATUS_SUCCESS =>
                     /\ Len(f.Info) = n
                     /\ \A i \in 1..n :
                          LET v == KeyCell.Values[CmiScanKeyForValue(KeyCell, f.ValueList[i])]
                          IN /\ f.Info[i].Type = v.DataType
                             /\ f.Info[i].DataLength = v.DataSize
                             /\ f.Info[i].DataOffset =
                                  ROUND_UP(AlignedTotal(KeyCell, f.ValueList, i - 1),
                                           SizeofPVOID)
           ELSE /\ f.Status = STATUS_OBJECT_NAME_NOT_FOUND
                /\ Len(f.Info) < Least(Missing(KeyCell, f.ValueList))

\* two values were asked for, the first fits and the second does not, and
\* the length returned counts both
C19_Witness ==
  \E t \in Threads :
    /\ Returned(t, "NtQueryMultipleValueKey")
    /\ Len(call[t].ValueList) = 2
    /\ call[t].ValueList[1] # call[t].ValueList[2]
    /\ call[t].Status = STATUS_BUFFER_TOO_SMALL
    /\ Len(call[t].Info) = 1
    /\ call[t].ResultLength > call[t].BufferLength
    /\ call[t].ResultLength = 2 * SizeofHCELL_INDEX + 1

(***************************************************************************)
(* The cookies of the callback registry                                    *)
(***************************************************************************)
\* the cookies CmRegisterCallback has given out so far: the addresses a
\* registration has lived at
CookiesGiven == {a \in Addrs : regId[a] # NoId}

\* C20: no two successful CmRegisterCallback calls return the same cookie,
\* also when the earlier callback was unregistered and its entry freed
\* before the later registration: there are as many cookies as registrations
C20_CookiesUnique == Cardinality(CookiesGiven) = regCount

(***************************************************************************)
(* The last write time of a key under NtSetValueKey, NtDeleteValueKey and  *)
(* NtSetInformationKey                                                     *)
(***************************************************************************)
\* the times a caller passes to NtSetInformationKey: before and after the
\* time of the system clock
CallerTimes == {SystemTime - 1, SystemTime + 1}

StartWriteTime(t) ==
  \/ NtOpenKey_Call(t, <<>>)
  \/ \E h \in Handles :
       \/ NtSetValueKey_Call(t, h, "V", REG_SZ, Bytes(SizeofHCELL_INDEX, "a"),
                             SizeofHCELL_INDEX)
       \/ NtDeleteValueKey_Call(t, h, "V", TRUE)
       \/ \E time \in CallerTimes :
            NtSetInformationKey_Call(t, h, KeyWriteTimeInformation, time,
                                     SizeofKEY_WRITE_TIME_INFORMATION)
       \/ NtClose(t, h)

RunWriteTime(t) ==
  \/ InvokeAcquire(t)
  \/ InvokeWalk(t)
  \/ NtOpenKey_Find(t)
  \/ NtOpenKey_PostDone(t)
  \/ HandlePreDone(t)
  \/ HandleAcquire(t)
  \/ NtSetValueKey_Set(t)
  \/ NtDeleteValueKey_Delete(t)
  \/ NtSetInformationKey_Write(t)
  \/ HandlePostDone(t)
  \/ HandleSync(t)
  \/ DispatcherReturn(t)

NextWriteTime == \E t \in KeyThreads : StartWriteTime(t) \/ RunWriteTime(t)

SpecWriteTime == InitInfo /\ [][NextWriteTime]_vars

\* the dispatchers that write the last write time of a key
TimeWriters == {"NtSetValueKey", "NtDeleteValueKey", "NtSetInformationKey"}

\* C21: over any sequence of NtSetValueKey, NtDeleteValueKey and
\* NtSetInformationKey on a key the last write time of the key never
\* decreases from one operation to the next
C21_LastWriteTimeNeverDecreases ==
  \A t \in Threads :
    (pc[t] \in TimeWriters /\ Returned(t, pc[t])) =>
      LET k == KeyObject[call[t].KeyObject].KeyCellOffset
      IN Cells[k].LastWriteTime >= call[t].before.Cells[k].LastWriteTime

(***************************************************************************)
(* The link flag of a key under NtSetValueKey and NtDeleteValueKey         *)
(***************************************************************************)
LinkNames == {SymbolicLinkValue, "V"}

StartLink(t) ==
  \/ NtOpenKey_Call(t, <<>>)
  \/ \E h \in Handles :
       \/ \E name \in LinkNames, type \in WriteTypes :
            NtSetValueKey_Call(t, h, name, type, Bytes(SizeofHCELL_INDEX, "a"),
                               SizeofHCELL_INDEX)
       \/ \E name \in LinkNames : NtDeleteValueKey_Call(t, h, name, TRUE)
       \/ NtClose(t, h)

RunLink(t) ==
  \/ InvokeAcquire(t)
  \/ InvokeWalk(t)
  \/ NtOpenKey_Find(t)
  \/ NtOpenKey_PostDone(t)
  \/ HandlePreDone(t)
  \/ HandleAcquire(t)
  \/ NtSetValueKey_Set(t)
  \/ NtDeleteValueKey_Delete(t)
  \/ HandlePostDone(t)
  \/ HandleSync(t)
  \/ DispatcherReturn(t)

NextLink == \E t \in KeyThreads : StartLink(t) \/ RunLink(t)

SpecLink == InitSetValue /\ [][NextLink]_vars

\* the places of the values of a key cell that are named SymbolicLinkValue
LinkValues(KeyCell) ==
  {i \in 1..Len(KeyCell.Values) : KeyCell.Values[i].Name = SymbolicLinkValue}

\* C22: after any sequence of NtSetValueKey and NtDeleteValueKey calls a key
\* cell that carries REG_KEY_LINK_CELL has exactly one value named
\* SymbolicLinkValue, and the type of that value is REG_LINK
C22_LinkCellHasLinkValue ==
  \A k \in CellIds :
    (Cells[k].InUse /\ REG_KEY_LINK_CELL \in Cells[k].Flags) =>
      /\ Cardinality(LinkValues(Cells[k])) = 1
      /\ \A i \in LinkValues(Cells[k]) : Cells[k].Values[i].DataType = REG_LINK


(***************************************************************************)
(* The registry lock under two callers that create, delete, enumerate and  *)
(* close one key.                                                          *)
(***************************************************************************)
\* keys the hive holds besides the root, and handles, under two callers
LockKeys == 1
LockHandles == 1

\* one caller creates and deletes the key, both enumerate and close it
StartLock(t) ==
  \/ /\ t \in KeyThreads
     /\ NtCreateKey_Call(t, <<"X">>, REG_OPTION_NON_VOLATILE, 0)
  \/ \E h \in Handles :
       \/ /\ t \in KeyThreads
          /\ NtDeleteKey_Call(t, h)
       \/ NtEnumerateKey_Call(t, h, 0, KeyBasicInformation, MaxLength)
       \/ NtClose(t, h)

RunLock(t) ==
  \/ InvokeAcquire(t)
  \/ InvokeWalk(t)
  \/ NtCreateKey_Find(t)
  \/ NtCreateKey_Acquire(t)
  \/ NtCreateKey_Insert(t)
  \/ NtCreateKey_PostDone(t)
  \/ NtCreateKey_Sync(t)
  \/ HandlePreDone(t)
  \/ HandleAcquire(t)
  \/ NtDeleteKey_Mark(t)
  \/ NtEnumerateKey_Read(t)
  \/ HandlePostDone(t)
  \/ KeyCellFault(t)
  \/ DispatcherReturn(t)

NextLock == \E t \in Threads : StartLock(t) \/ RunLock(t)

InitLock ==
  /\ InitCallbacks(0)
  /\ InitKeys([Keys |-> LockKeys, Handles |-> LockHandles, Values |-> 0, DataCells |-> 0])

SpecLock == InitLock /\ [][NextLock]_vars

\* a dispatcher that is between its acquire and its release holds the lock
\* in its mode, and an exclusive holder is the only holder
LockHeldInMode ==
  /\ \A t \in Threads :
       call[t].pc = "locked" =>
         IF pc[t] \in HandleDispatchers \ ExclusiveDispatchers
           THEN t \in CmiRegistryLock.Shared
           ELSE CmiRegistryLock.Exclusive = t
  /\ CmiRegistryLock.Exclusive # NoThread => CmiRegistryLock.Shared = {}

\* a step of a dispatcher that changes the hive cells or the key objects'
\* links is taken by the exclusive holder
MutatesUnderLock ==
  (call' # call /\ (Cells' # Cells
                      \/ \E o \in ObjIds : KeyObject'[o].Linked # KeyObject[o].Linked)) =>
    \E t \in Threads : CmiRegistryLock.Exclusive = t /\ call'[t] # call[t]

\* C23: every read or write of hive cells and of the key object list by a
\* dispatcher happens while its thread holds CmiRegistryLock, shared for the
\* reading dispatchers and exclusive for the mutating ones, so that no
\* mutation overlaps another thread's read or mutation
C23_CellsTouchedUnderRegistryLock ==
  []LockHeldInMode /\ [][MutatesUnderLock]_vars


(***************************************************************************)
(* Claims about the walk of the callback list.                             *)
(***************************************************************************)
\* the callbacks that were registered before the walk of thread t began and
\* are still live
LiveThrough(t) ==
  {regId[CmiCallbackHead[i]] : i \in {j \in 1..Len(CmiCallbackHead) :
      /\ ~Callback[CmiCallbackHead[j]].PendingDelete
      /\ regId[CmiCallbackHead[j]] <= inv[t].first}}

\* what a finished walk has done
WalkOutcome(t) ==
  LET called == inv[t].called
      returned == inv[t].returned
      n == Len(returned)
  IN /\ Len(called) = n
     /\ \A i, j \in 1..n : i < j => called[i] < called[j]
     /\ \A i \in 1..n : i < n => NT_SUCCESS(returned[i])
     /\ inv[t].Status = IF n = 0 THEN STATUS_SUCCESS ELSE returned[n]
     /\ NT_SUCCESS(inv[t].Status) =>
          \A id \in LiveThrough(t) : \E i \in 1..n : called[i] = id

\* the function of an entry is called only while the entry is not pending
\* delete
CallsLiveOnly ==
  \A t \in Threads :
    (inv[t].pc = "walk" /\ inv'[t].pc = "call") =>
       ~Callback[inv[t].CurrentEntry].PendingDelete

\* C24: CmiCallRegisteredCallbacks calls the callbacks that are not pending
\* delete in registration order, stops at the first failure and returns it,
\* returns the status of the last callback called otherwise, and
\* STATUS_SUCCESS when none was called
C24_WalkOrderAndStatus ==
  /\ [](\A t \in Threads : inv[t].pc = "ret" => WalkOutcome(t))
  /\ [][CallsLiveOnly]_vars

\* a walk stopped by a failure before a later live callback
C24_Witness ==
  \E t \in Threads :
    /\ inv[t].pc = "ret"
    /\ Len(inv[t].called) = 1
    /\ ~NT_SUCCESS(inv[t].Status)
    /\ \E id \in LiveThrough(t) : id > inv[t].called[1]


(***************************************************************************)
(* Claims about CmUnRegisterCallback.                                      *)
(***************************************************************************)
\* thread t has marked the entry it unregisters and has not returned yet
Unregistering(t) ==
  unr[t].pc \in {"wait", "waiting", "relock", "unlink", "free"}

\* a cookie that is not in the list or whose entry is pending delete is
\* refused, and nothing changes
RefusesUnknownCookie ==
  \A t \in Threads :
    (unr[t].pc = "scan" /\ unr'[t].pc # "scan") =>
      IF InList(unr[t].Cookie) /\ ~Callback[unr[t].Cookie].PendingDelete
        THEN unr'[t].pc = "wait"
        ELSE /\ unr'[t].pc = "ret"
             /\ unr'[t].Status = STATUS_UNSUCCESSFUL
             /\ UNCHANGED <<CmiCallbackHead, Callback>>

\* one registration is unregistered by one call at most
OneUnregisters ==
  \A t, u \in Threads :
    (t # u /\ Unregistering(t) /\ Unregistering(u)) => unr[t].id # unr[u].id

\* the entry is unlinked while it is linked and freed while it is allocated,
\* by a call that returns STATUS_SUCCESS, and no registration is freed twice
UnlinkedAndFreedOnce ==
  \A t \in Threads :
    /\ (unr[t].pc = "unlink" /\ unr'[t].pc = "free") =>
         /\ InList(unr[t].CurrentCallback)
         /\ Len(CmiCallbackHead') = Len(CmiCallbackHead) - 1
    /\ (unr[t].pc = "free" /\ unr'[t].pc = "ret") =>
         /\ Callback[unr[t].CurrentCallback].Allocated
         /\ ~InList(unr[t].CurrentCallback)
         /\ unr[t].id \notin unregDone
         /\ unr'[t].Status = STATUS_SUCCESS

\* what holds of CmUnRegisterCallback in every step
UnregisterOutcome ==
  [](OneUnregisters) /\ [][RefusesUnknownCookie /\ UnlinkedAndFreedOnce]_vars

\* C25: CmUnRegisterCallback returns STATUS_UNSUCCESSFUL, changing nothing,
\* for a cookie that is not in the list or whose entry is pending delete;
\* of the concurrent calls for one registered cookie exactly one returns
\* STATUS_SUCCESS, and the entry is unlinked and freed exactly once
C25_ExactlyOneUnregisters ==
  /\ UnregisterOutcome
  /\ \A t \in Threads :
       Unregistering(t) ~> (unr[t].pc = "ret" /\ unr[t].Status = STATUS_SUCCESS)


(***************************************************************************)
(* The life of a callback entry.                                           *)
(***************************************************************************)
\* the stages in their order
Stages == <<"Live", "PendingDelete", "Drained", "Freed">>

\* where an entry is in its life, as an index of Stages
StageOf(cb) ==
  CHOOSE i \in DOMAIN Stages :
    Stages[i] = IF ~cb.Allocated THEN "Freed"
                ELSE IF ~cb.PendingDelete THEN "Live"
                ELSE IF cb.RundownRef.Count > 0 THEN "PendingDelete"
                ELSE "Drained"

\* one step in the life of the entry at address a; memory that was freed may
\* be handed out again for a new entry
EntryStep(a) ==
  LET cb == Callback[a]
      next == Callback'[a]
  IN /\ cb.Allocated => StageOf(next) >= StageOf(cb)
     /\ (cb.Allocated /\ next.Allocated /\ cb.PendingDelete) => next.PendingDelete
     /\ (InList(a) /\ ~(\E i \in 1..Len(CmiCallbackHead') : CmiCallbackHead'[i] = a)) =>
          Stages[StageOf(cb)] = "Drained"
     /\ (cb.Allocated /\ ~next.Allocated) =>
          Stages[StageOf(cb)] = "Drained" /\ ~InList(a)
     /\ (cb.Allocated /\ next.Allocated
           /\ next.RundownRef.Count > cb.RundownRef.Count) => ~cb.PendingDelete

\* C26: a callback entry only moves forward through Live, PendingDelete,
\* Drained and Freed: PendingDelete is never cleared, the entry is unlinked
\* and freed only when no invocation holds its rundown protection, and no
\* invocation of it starts once PendingDelete is set
C26_EntryLifeMovesForward ==
  [][\A a \in Addrs : EntryStep(a)]_vars

\* an entry that is pending delete while its function still runs
C26_Witness ==
  \E a \in Addrs : Stages[StageOf(Callback[a])] = "PendingDelete"


(***************************************************************************)
(* The walk and freed entries.                                             *)
(***************************************************************************)
\* thread t is inside the for loop of CmiCallRegisteredCallbacks
Walking(t) == inv[t].pc \in {"walk", "call", "relock", "release"}

\* C27: the walk of CmiCallRegisteredCallbacks never reads the fields or the
\* forward link of an entry that has been freed, whatever CmRegisterCallback
\* and CmUnRegisterCallback do meanwhile, also to the entry whose function
\* runs and to its neighbours
C27_WalkNeverReadsFreedEntry ==
  \A t \in Threads :
    (Walking(t) /\ inv[t].CurrentEntry # ListHead) =>
      /\ Callback[inv[t].CurrentEntry].Allocated
      /\ InList(inv[t].CurrentEntry)
      /\ regId[inv[t].CurrentEntry] # NoId

\* the walk is back from the function of an entry that another thread has
\* unregistered during the call, and reads its forward link next
C27_Witness ==
  \E t, u \in Threads :
    /\ t # u
    /\ inv[t].pc = "release"
    /\ unr[u].pc = "waiting"
    /\ unr[u].CurrentCallback = inv[t].CurrentEntry
    /\ unr[u].blocked


(***************************************************************************)
(* The pre-callback and the post-callback of a dispatcher.                 *)
(***************************************************************************)
\* thread t enters CmiCallRegisteredCallbacks in this step
WalkStarts(t) == inv[t].pc # "lock" /\ inv'[t].pc = "lock"

\* a walk begun by a dispatcher is its pre-callback, begun as the call
\* starts and once only, or its post-callback, begun once the pre-callback
\* is over and the registry lock is not held
CallbackStep(t) ==
  WalkStarts(t) =>
    \/ /\ pc[t] = "idle"
       /\ call'[t].pc = "pre"
       /\ call'[t].preCalls = 1
       /\ call'[t].postCalls = 0
       /\ ~call'[t].locked
       /\ ~(HoldsRegistryLock(t))'
    \/ /\ pc[t] # "idle"
       /\ inv[t].pc \in {"none", "ret"}
       /\ call[t].preCalls = 1
       /\ call[t].postCalls = 0
       /\ call'[t].postCalls = 1
       /\ ~(HoldsRegistryLock(t))'

\* the registry lock is taken after the pre-callback and before the
\* post-callback, and the post-callback is counted when its walk begins
LockStep(t) ==
  /\ (~HoldsRegistryLock(t) /\ (HoldsRegistryLock(t))') =>
       /\ call[t].preCalls = 1
       /\ call[t].postCalls = 0
       /\ inv[t].pc = "none"
  /\ (pc'[t] = pc[t] /\ call'[t].postCalls # call[t].postCalls) => WalkStarts(t)

\* a dispatcher that returns has had its post-callback once when it had its
\* pre-callback, and both walks are over
Returning(t) ==
  (pc[t] # "idle" /\ call[t].pc = "ret" /\ call[t].preCalls = 1) =>
    /\ call[t].postCalls = 1
    /\ inv[t].pc = "none"
    /\ ~HoldsRegistryLock(t)

\* C28: in every dispatcher, on every path on which the pre-callback was
\* invoked the post-callback is invoked exactly once before the return, after
\* the pre-callback and after the registry lock, if taken, was released; the
\* pre-callback is invoked at most once and before the lock is acquired
C28_PostCallbackOncePerPreCallback ==
  /\ [](\A t \in Threads : Returning(t))
  /\ [][\A t \in Threads : CallbackStep(t) /\ LockStep(t)]_vars

\* NtEnumerateKey returns STATUS_NO_MORE_ENTRIES after it took the lock and
\* has had its post-callback
C28_Witness ==
  \E t \in Threads :
    /\ pc[t] = "NtEnumerateKey"
    /\ call[t].pc = "ret"
    /\ call[t].locked
    /\ call[t].Status = STATUS_NO_MORE_ENTRIES
    /\ call[t].postCalls = 1


(***************************************************************************)
(* NtSetValueKey when no data cell can be allocated.                       *)
(***************************************************************************)
\* the call of thread t found a value cell, or room for one, needed a new
\* data cell for it (line 2074) and HvAllocateCell had none
AllocationFailed(t) ==
  LET f == call[t]
      was == f.before.Cells
      k == f.before.KeyObject[f.KeyObject].KeyCellOffset
      found == CmiScanKeyForValue(was[k], f.ValueName)
      KeyCell == IF found = 0 THEN CmiAddValueToKey(was[k], f.ValueName) ELSE was[k]
      i == IF found = 0 THEN Len(KeyCell.Values) ELSE found
      added == [was EXCEPT ![k] = KeyCell]
  IN /\ f.locked
     /\ found # 0 \/ Len(was[k].Values) < budget.Values
     /\ f.DataSize > SizeofHCELL_INDEX
     /\ f.DataSize > DataCellSizeOf(added, KeyCell.Values[i])
     /\ HvAllocateCell(added) = HCELL_NULL

\* C29: when HvAllocateCell returns HCELL_NULL in NtSetValueKey, the call
\* returns a failure status, gives that status to the post-callback, and the
\* key has the values and the data it had before the call
C29_AllocationFailureLeavesKey ==
  \A t \in Threads :
    (Returned(t, "NtSetValueKey") /\ AllocationFailed(t)) =>
      LET was == call[t].before.Cells
          k == KeyObject[call[t].KeyObject].KeyCellOffset
      IN /\ ~NT_SUCCESS(call[t].Status)
         /\ call[t].postCalls = 1
         /\ call[t].postStatus = call[t].Status
         /\ Cells[k].Values = was[k].Values
         /\ \A d \in DataIds : Cells[d] = was[d]

\* what does hold after the failed allocation: the status is the one of
\* CmiScanKeyForValue or CmiAddValueToKey, the post-callback gets it, and no
\* data cell has changed
AllocationFailureOutcome ==
  \A t \in Threads :
    (Returned(t, "NtSetValueKey") /\ AllocationFailed(t)) =>
      /\ call[t].Status = STATUS_SUCCESS
      /\ call[t].postStatus = STATUS_SUCCESS
      /\ \A d \in DataIds : Cells[d] = call[t].before.Cells[d]


(***************************************************************************)
(* NtCreateKey when CmiAddSubKey fails.                                    *)
(***************************************************************************)
\* the NtCreateKey of thread t is past a CmiAddSubKey that failed
AddSubKeyFailed(t) ==
  /\ pc[t] = "NtCreateKey"
  /\ call[t].pc = "ret"
  /\ call[t].SubKeyStatus # NoStatus

\* C30: when CmiAddSubKey fails in NtCreateKey, its status is returned and
\* given to the post-callback, the registry lock is released, and the new key
\* object is no longer in the key object list and no handle of the caller
\* refers to it
C30_AddSubKeyFailureUnwinds ==
  \A t \in Threads :
    AddSubKeyFailed(t) =>
      /\ call[t].Status = call[t].SubKeyStatus
      /\ call[t].postStatus = call[t].SubKeyStatus
      /\ ~HoldsRegistryLock(t)
      /\ ~KeyObject[call[t].KeyObject].Linked
      /\ \A h \in Handles : HandleTable[h] # call[t].KeyObject

\* what does hold after the failure: the lock is released, the post-callback
\* was called once with the status returned and no object, and the hive is
\* what it was
AddSubKeyFailureOutcome ==
  \A t \in Threads :
    AddSubKeyFailed(t) =>
      /\ ~HoldsRegistryLock(t)
      /\ call[t].critical = 0
      /\ call[t].postCalls = 1
      /\ call[t].postStatus = call[t].Status
      /\ call[t].postObject = NoObject
      /\ Cells = call[t].before.Cells


(***************************************************************************)
(* NtDeleteKey on the root key of a mounted hive.                          *)
(***************************************************************************)
\* the hive that was loaded under the system hive
LoadedHive == "LoadedHive"
\* the root key of the loaded hive: its key cell and its key object
MountCell == RootCell + 1
MountKey == RootKey + 1
\* a key of the loaded hive under its root
MountedCell == MountCell + 1
MountedKey == MountKey + 1
MountHandle == Least(Handles)
MountedHandle == MountHandle + 1

\* a hive is mounted and the caller has its root key open; the key object
\* of the mount point is referenced by the key object list, by the mount and
\* by the handle.  With kids, the root of the loaded hive has one subkey
\* that the caller has open too.
MountedHive(kids) ==
  /\ CmiRegistryLock = FreeLock
  /\ Cells = [c \in CellIds \cup DataIds |->
               IF c = RootCell THEN [FreeCell EXCEPT !.InUse = TRUE]
               ELSE IF c = MountCell
                 THEN [FreeCell EXCEPT !.InUse = TRUE,
                                       !.SubKeyCounts[HvStable] = IF kids THEN 1 ELSE 0,
                                       !.SubKeyLists[HvStable] =
                                          IF kids THEN <<MountedCell>> ELSE <<>>]
               ELSE IF c = MountedCell /\ kids
                 THEN [FreeCell EXCEPT !.InUse = TRUE, !.Parent = MountCell,
                                       !.Name = <<"X">>]
               ELSE IF c \in CellIds THEN FreeCell
               ELSE FreeData]
  /\ KeyObject = [o \in ObjIds |->
                   IF o = RootKey
                     THEN [FreeObject EXCEPT !.Allocated = TRUE,
                                             !.KeyCellOffset = RootCell,
                                             !.ParentKey = RootKey,
                                             !.PointerCount = 1, !.Linked = TRUE]
                   ELSE IF o = MountKey
                     THEN [FreeObject EXCEPT !.Allocated = TRUE,
                                             !.KeyCellOffset = MountCell,
                                             !.ParentKey = RootKey,
                                             !.Name = <<"X">>,
                                             !.RegistryHive = LoadedHive,
                                             !.PointerCount = 3,
                                             !.HandleCount = 1, !.Linked = TRUE]
                   ELSE IF o = MountedKey /\ kids
                     THEN [FreeObject EXCEPT !.Allocated = TRUE,
                                             !.KeyCellOffset = MountedCell,
                                             !.ParentKey = MountKey,
                                             !.Name = <<"X">>,
                                             !.RegistryHive = LoadedHive,
                                             !.PointerCount = 2,
                                             !.HandleCount = 1, !.Linked = TRUE]
                   ELSE FreeObject]
  /\ HandleTable = [h \in Handles |->
                     IF h = MountHandle THEN MountKey
                     ELSE IF h = MountedHandle /\ kids THEN MountedKey
                     ELSE NoObject]
  /\ fault = FALSE
  /\ budget = [Keys |-> 0, Handles |-> MaxHandles, Values |-> 0, DataCells |-> 0]
  /\ CmiRegistryInitialized = FALSE
  /\ bootWork = [Calls |-> 0, Saved |-> 0, InitHives |-> 0]
  /\ call = [t \in Threads |-> NoCall]

StartMount(t) ==
  \E h \in Handles :
    \/ NtDeleteKey_Call(t, h)
    \/ NtEnumerateKey_Call(t, h, 0, KeyBasicInformation, MaxLength)
    \/ NtClose(t, h)

RunMount(t) ==
  \/ RunCallbacks(t)
  \/ HandlePreDone(t)
  \/ HandleFailed(t)
  \/ HandleAcquire(t)
  \/ NtDeleteKey_Mark(t)
  \/ NtEnumerateKey_Read(t)
  \/ HandlePostDone(t)
  \/ DispatcherReturn(t)

NextMount == \E t \in KeyThreads : StartMount(t) \/ RunMount(t)

InitMount ==
  /\ InitCallbacks(1)
  /\ \E kids \in BOOLEAN : MountedHive(kids)

SpecMount == InitMount /\ [][NextMount]_vars

\* the NtDeleteKey of thread t has called the pre-callback and is at its
\* return
DeleteKeyReturns(t) ==
  /\ pc[t] = "NtDeleteKey"
  /\ call[t].pc = "ret"
  /\ call[t].preCalls = 1

\* the key object of the call was the root of a mounted hive when the call
\* started
WasMountPoint(t) ==
  LET was == call[t].before.KeyObject
      ko == was[call[t].KeyObject]
  IN ko.RegistryHive # was[ko.ParentKey].RegistryHive

\* C31: after a successful pre-callback NtDeleteKey calls ObDereferenceObject
\* on the key object twice when the key's hive is its parent's hive and
\* three times when it is not, whether it returns STATUS_SUCCESS or
\* STATUS_CANNOT_DELETE; after a failed pre-callback it calls it once
C31_DeleteKeyDereferences ==
  \A t \in Threads :
    DeleteKeyReturns(t) =>
      IF ~NT_SUCCESS(call[t].preStatus) THEN call[t].dereferenced = 1
      ELSE /\ call[t].Status \in {STATUS_SUCCESS, STATUS_CANNOT_DELETE}
           /\ call[t].dereferenced = IF WasMountPoint(t) THEN 3 ELSE 2

\* an NtDeleteKey of the mount point that has subkeys has returned
C31_Witness ==
  \E t \in Threads :
    /\ DeleteKeyReturns(t)
    /\ NT_SUCCESS(call[t].preStatus)
    /\ WasMountPoint(t)
    /\ call[t].Status = STATUS_CANNOT_DELETE
    /\ call[t].dereferenced = 3


(***************************************************************************)
(* NtDeleteValueKey of a value the key does not have.                      *)
(***************************************************************************)
\* the NtDeleteValueKey of thread t has passed the pre-callback and is at
\* its return, and the key had no value of the name when the call started
DeletedMissingValue(t) ==
  /\ pc[t] = "NtDeleteValueKey"
  /\ call[t].pc = "ret"
  /\ call[t].preCalls = 1
  /\ NT_SUCCESS(call[t].preStatus)
  /\ LET k == call[t].before.KeyObject[call[t].KeyObject].KeyCellOffset
     IN /\ k # HCELL_NULL
        /\ CmiScanKeyForValue(call[t].before.Cells[k], call[t].ValueName) = 0

\* C32: NtDeleteValueKey for a value name the key does not have returns a
\* failure status, calls the post-callback with it, and leaves the key cell
\* as it was: the last write time is not updated and the cell is not marked
\* dirty
C32_DeleteMissingValueLeavesKeyCell ==
  \A t \in Threads :
    DeletedMissingValue(t) =>
      LET k == call[t].before.KeyObject[call[t].KeyObject].KeyCellOffset
      IN /\ ~NT_SUCCESS(call[t].Status)
         /\ call[t].postCalls = 1
         /\ call[t].postStatus = call[t].Status
         /\ Cells[k].LastWriteTime = call[t].before.Cells[k].LastWriteTime
         /\ Cells[k].Dirty = call[t].before.Cells[k].Dirty

\* what does hold for the missing name: the failure is returned and given
\* to the post-callback, the values stay, and the key cell has the time of
\* the system clock and is dirty
DeleteMissingValueOutcome ==
  \A t \in Threads :
    DeletedMissingValue(t) =>
      LET k == call[t].before.KeyObject[call[t].KeyObject].KeyCellOffset
      IN /\ call[t].Status = STATUS_OBJECT_NAME_NOT_FOUND
         /\ call[t].postCalls = 1
         /\ call[t].postStatus = call[t].Status
         /\ Cells[k].Values = call[t].before.Cells[k].Values
         /\ Cells[k].LastWriteTime = SystemTime
         /\ Cells[k].Dirty


(***************************************************************************)
(* The counts and maxima of NtEnumerateKey's KeyFullInformation.           *)
(***************************************************************************)
\* the NtEnumerateKey of thread t has filled a KEY_FULL_INFORMATION and is
\* at its return
EnumeratedFull(t) ==
  /\ Returned(t, "NtEnumerateKey")
  /\ call[t].KeyInformationClass = KeyFullInformation
  /\ call[t].SubKeyCell # HCELL_NULL
  /\ call[t].Info # <<>>

\* C33: every count and maximum NtEnumerateKey returns with
\* KeyFullInformation (SubKeys, MaxNameLen, MaxClassLen, Values,
\* MaxValueNameLen, MaxValueDataLen) is the one of the key under the handle,
\* not of the enumerated subkey
C33_FullInformationOfHandleKey ==
  \A t \in Threads :
    EnumeratedFull(t) =>
      LET KeyCell == Cells[KeyCellOf(t)]
          Info == call[t].Info
      IN /\ Info.SubKeys = CmiGetNumberOfSubKeys(KeyCell)
         /\ Info.MaxNameLen = CmiGetMaxNameLength(Cells, KeyCell)
         /\ Info.MaxClassLen = CmiGetMaxClassLength(Cells, KeyCell)
         /\ Info.Values = Len(KeyCell.Values)
         /\ Info.MaxValueNameLen = CmiGetMaxValueNameLength(KeyCell)
         /\ Info.MaxValueDataLen = CmiGetMaxValueDataLength(KeyCell)

\* what does hold: the subkey count and the name and class maxima are the
\* ones of the key under the handle, the value count and the value maxima
\* are the ones of the enumerated subkey
FullInformationOutcome ==
  \A t \in Threads :
    EnumeratedFull(t) =>
      LET KeyCell == Cells[KeyCellOf(t)]
          SubKeyCell == Cells[call[t].SubKeyCell]
          Info == call[t].Info
      IN /\ Info.SubKeys = CmiGetNumberOfSubKeys(KeyCell)
         /\ Info.MaxNameLen = CmiGetMaxNameLength(Cells, KeyCell)
         /\ Info.MaxClassLen = CmiGetMaxClassLength(Cells, KeyCell)
         /\ Info.Values = Len(SubKeyCell.Values)
         /\ Info.MaxValueNameLen = CmiGetMaxValueNameLength(SubKeyCell)
         /\ Info.MaxValueDataLen = CmiGetMaxValueDataLength(SubKeyCell)


(***************************************************************************)
(* The class string of NtEnumerateKey's KeyNodeInformation.                *)
(***************************************************************************)
\* the names of the subkey: one that is stored packed, one that is not
NodeNames == {<<"X">>, <<WideChar>>}

StartNodeInfo(t) ==
  \/ \E name \in NodeNames, Class \in ClassSizes :
       NtCreateKey_Call(t, name, REG_OPTION_NON_VOLATILE, Class)
  \/ NtOpenKey_Call(t, <<>>)
  \/ \E h \in Handles :
       \/ \E Length \in 0..MaxLength :
            NtEnumerateKey_Call(t, h, 0, KeyNodeInformation, Length)
       \/ NtClose(t, h)

RunNodeInfo(t) ==
  \/ InvokeAcquire(t)
  \/ InvokeWalk(t)
  \/ NtCreateKey_Find(t)
  \/ NtCreateKey_Acquire(t)
  \/ NtCreateKey_Insert(t)
  \/ NtCreateKey_PostDone(t)
  \/ NtCreateKey_Sync(t)
  \/ NtOpenKey_Find(t)
  \/ NtOpenKey_PostDone(t)
  \/ HandlePreDone(t)
  \/ HandleAcquire(t)
  \/ NtEnumerateKey_Read(t)
  \/ HandlePostDone(t)
  \/ DispatcherReturn(t)

NextNodeInfo == \E t \in KeyThreads : StartNodeInfo(t) \/ RunNodeInfo(t)

SpecNodeInfo == InitInfo /\ [][NextNodeInfo]_vars

\* the NtEnumerateKey of thread t has filled a KEY_NODE_INFORMATION and is
\* at its return
EnumeratedNode(t) ==
  /\ Returned(t, "NtEnumerateKey")
  /\ call[t].KeyInformationClass = KeyNodeInformation
  /\ call[t].SubKeyCell # HCELL_NULL
  /\ call[t].Info # <<>>

\* the writes of class bytes into the buffer of thread t
ClassWrites(t) == {w \in call[t].Info.Writes : w.What = "Class"}

\* C34: NtEnumerateKey with KeyNodeInformation, for a packed and for an
\* unpacked subkey name, reports a ClassOffset of the header size plus the
\* bytes of the name, and writes the class bytes into the buffer from that
\* offset on, directly after the name
C34_ClassWrittenAtClassOffset ==
  \A t \in Threads :
    EnumeratedNode(t) =>
      /\ call[t].Info.ClassOffset = SizeofKEY_NODE_INFORMATION + call[t].Info.NameLength
      /\ \A w \in ClassWrites(t) :
           /\ w.At = call[t].Info.ClassOffset
           /\ w.At = KeyNodeHeader + call[t].Info.NameLength

\* what does hold: ClassOffset is sizeof(KEY_NODE_INFORMATION) plus the bytes
\* of the name; the class bytes go to Name + SubKeyCell->NameSize, which is
\* directly after a packed name and past the end of an unpacked one, and in
\* neither case at ClassOffset
NodeInformationOutcome ==
  \A t \in Threads :
    EnumeratedNode(t) =>
      LET SubKeyCell == Cells[call[t].SubKeyCell]
          NameLength == call[t].Info.NameLength
      IN /\ call[t].Info.ClassOffset = SizeofKEY_NODE_INFORMATION + NameLength
         /\ \A w \in ClassWrites(t) :
              /\ w.At = IF REG_KEY_NAME_PACKED \in SubKeyCell.Flags
                          THEN KeyNodeHeader + NameLength
                        ELSE KeyNodeHeader + 2 * NameLength
              /\ w.At # call[t].Info.ClassOffset


(***************************************************************************)
(* NtFlushKey, NtSaveKey, NtLoadKey2 and NtUnloadKey: the dispatchers that *)
(* call no callback.  The hive files, the loading and the unloading of a   *)
(* hive are outside the hive cells followed here; their calls succeed or   *)
(* fail.                                                                   *)
(***************************************************************************)
\* the dispatchers that take the registry lock without a pre-callback
HiveDispatchers == {"NtFlushKey", "NtSaveKey", "NtLoadKey2", "NtUnloadKey"}

\* ObReferenceObjectByHandle of NtFlushKey (line 1267) and NtSaveKey (line
\* 2586); the registry lock is next
HiveCall(t, name, h) ==
  /\ pc[t] = "idle"
  /\ ~fault
  /\ pc' = [pc EXCEPT ![t] = name]
  /\ IF HandleTable[h] = NoObject
       THEN /\ call' = [call EXCEPT ![t] = [NoCall EXCEPT !.pc = "ret",
                                              !.KeyHandle = h,
                                              !.Status = STATUS_INVALID_HANDLE,
                                              !.before = Snapshot]]
            /\ UNCHANGED KeyObject
       ELSE /\ call' = [call EXCEPT ![t] = [NoCall EXCEPT !.pc = "lock",
                                              !.KeyHandle = h,
                                              !.KeyObject = HandleTable[h],
                                              !.referenced = TRUE,
                                              !.before = Snapshot]]
            /\ KeyObject' = ObReferenceObject(World, HandleTable[h]).KeyObject
  /\ UNCHANGED <<CmiCallbackHead, CmiCallbackLock, Callback, regId, regCount, unregDone,
                 reg, unr, inv, CmiRegistryLock, Cells, HandleTable, fault, budget,
                 CmiRegistryInitialized, bootWork>>

NtFlushKey_Call(t, h) == HiveCall(t, "NtFlushKey", h)

NtSaveKey_Call(t, h) == HiveCall(t, "NtSaveKey", h)

\* NtLoadKey2 up to line 2340 and NtUnloadKey up to line 2776: no handle
NtLoadKey2_Call(t) ==
  /\ pc[t] = "idle"
  /\ ~fault
  /\ pc' = [pc EXCEPT ![t] = "NtLoadKey2"]
  /\ call' = [call EXCEPT ![t] = [NoCall EXCEPT !.pc = "lock", !.before = Snapshot]]
  /\ UNCHANGED <<CmiCallbackHead, CmiCallbackLock, Callback, regId, regCount, unregDone,
                 reg, unr, inv, CmiRegistryLock, Cells, KeyObject, HandleTable, fault,
                 budget, CmiRegistryInitialized, bootWork>>

NtUnloadKey_Call(t) ==
  /\ pc[t] = "idle"
  /\ ~fault
  /\ pc' = [pc EXCEPT ![t] = "NtUnloadKey"]
  /\ call' = [call EXCEPT ![t] = [NoCall EXCEPT !.pc = "lock", !.before = Snapshot]]
  /\ UNCHANGED <<CmiCallbackHead, CmiCallbackLock, Callback, regId, regCount, unregDone,
                 reg, unr, inv, CmiRegistryLock, Cells, KeyObject, HandleTable, fault,
                 budget, CmiRegistryInitialized, bootWork>>

\* KeEnterCriticalRegion; ExAcquireResourceExclusiveLite: lines 1284-1285,
\* 2342-2343, 2599-2600, 2778-2779
HiveAcquire(t) ==
  /\ pc[t] \in HiveDispatchers
  /\ AcquireExclusive(t)
  /\ UNCHANGED <<cbvars, Cells, KeyObject, HandleTable, fault, budget,
                 CmiRegistryInitialized, bootWork>>

\* CmiFlushRegistryHive: the dirty cells are written to the hive file
CmiFlushRegistryHive(cells) ==
  [c \in DOMAIN cells |-> IF c \in CellIds THEN [cells[c] EXCEPT !.Dirty = FALSE]
                          ELSE cells[c]]

\* lines 1287-1302: the flush, whose status is not returned
NtFlushKey_Flush(t, flushed) ==
  /\ pc[t] = "NtFlushKey"
  /\ call[t].pc = "locked"
  /\ Commit(t, ObDereferenceObject(
                 [World EXCEPT !.Cells = IF flushed THEN CmiFlushRegistryHive(@) ELSE @],
                 call[t].KeyObject),
            Released([call[t] EXCEPT !.pc = "ret", !.referenced = FALSE,
                                     !.Status = STATUS_SUCCESS]))
  /\ ReleaseLock(t)
  /\ UNCHANGED <<cbvars, budget, CmiRegistryInitialized, bootWork>>

\* what stops NtSaveKey: CmiCreateTempHive or CmiCopyKey fails, or nothing
SaveOutcomes == {"CmiCreateTempHive", "CmiCopyKey", "Saved"}

\* mutant: the refusal of a volatile key returns with the registry lock
NtSaveKey_SaveKeepsLock(t, outcome) ==
  /\ pc[t] = "NtSaveKey"
  /\ call[t].pc = "locked"
  /\ KeyCellOf(t) # HCELL_NULL
  /\ LET volatile == Cells[KeyCellOf(t)].Storage = HvVolatile
         st == IF volatile THEN STATUS_ACCESS_DENIED
               ELSE IF outcome = "Saved" THEN STATUS_SUCCESS
               ELSE STATUS_INSUFFICIENT_RESOURCES
         f == [call[t] EXCEPT !.pc = "ret", !.referenced = FALSE, !.Status = st]
     IN /\ Commit(t, ObDereferenceObject(World, call[t].KeyObject),
                  IF volatile THEN f ELSE Released(f))
        /\ IF volatile THEN UNCHANGED CmiRegistryLock ELSE ReleaseLock(t)
  /\ UNCHANGED <<cbvars, budget, CmiRegistryInitialized, bootWork>>

\* lines 2602-2653: a volatile key is refused; the temporary hive is made,
\* filled and saved; every path releases the lock and the reference
NtSaveKey_Save(t, outcome) ==
  /\ pc[t] = "NtSaveKey"
  /\ call[t].pc = "locked"
  /\ KeyCellOf(t) # HCELL_NULL
  /\ LET volatile == Cells[KeyCellOf(t)].Storage = HvVolatile
         st == IF volatile THEN STATUS_ACCESS_DENIED
               ELSE IF outcome = "Saved" THEN STATUS_SUCCESS
               ELSE STATUS_INSUFFICIENT_RESOURCES
     IN Commit(t, ObDereferenceObject(World, call[t].KeyObject),
               Released([call[t] EXCEPT !.pc = "ret", !.referenced = FALSE,
                                        !.Status = st]))
  /\ ReleaseLock(t)
  /\ UNCHANGED <<cbvars, budget, CmiRegistryInitialized, bootWork>>

\* lines 2345-2360: CmiLoadHive and the release; its status is returned
NtLoadKey2_Load(t, status) ==
  /\ pc[t] = "NtLoadKey2"
  /\ call[t].pc = "locked"
  /\ call' = [call EXCEPT ![t] = Released([call[t] EXCEPT !.pc = "ret",
                                                          !.Status = status])]
  /\ ReleaseLock(t)
  /\ UNCHANGED <<cbvars, Cells, KeyObject, HandleTable, fault, budget,
                 CmiRegistryInitialized, bootWork>>

\* lines 2781-2807: CmiDisconnectHive fails, or the hive is removed
NtUnloadKey_Unload(t, status) ==
  /\ pc[t] = "NtUnloadKey"
  /\ call[t].pc = "locked"
  /\ call' = [call EXCEPT ![t] = Released([call[t] EXCEPT !.pc = "ret",
                                                          !.Status = status])]
  /\ ReleaseLock(t)
  /\ UNCHANGED <<cbvars, Cells, KeyObject, HandleTable, fault, budget,
                 CmiRegistryInitialized, bootWork>>

StartRegion(t) ==
  \/ NtCreateKey_Call(t, <<"X">>, REG_OPTION_VOLATILE, 0)
  \/ \E name \in {<<>>, <<"X">>} : NtOpenKey_Call(t, name)
  \/ \E h \in Handles :
       \/ NtDeleteKey_Call(t, h)
       \/ NtEnumerateKey_Call(t, h, 0, KeyBasicInformation, MaxLength)
       \/ NtEnumerateValueKey_Call(t, h, 0, KeyValuePartialInformation, MaxLength)
       \/ NtQueryKey_Call(t, h, KeyBasicInformation, MaxLength)
       \/ NtQueryValueKey_Call(t, h, "V", KeyValuePartialInformation, MaxLength)
       \/ NtSetValueKey_Call(t, h, "V", REG_SZ, Bytes(2 * SizeofHCELL_INDEX, "a"),
                             2 * SizeofHCELL_INDEX)
       \/ \E captured \in BOOLEAN : NtDeleteValueKey_Call(t, h, "V", captured)
       \/ NtQueryMultipleValueKey_Call(t, h, <<"V">>, MaxLength)
       \/ \E class \in {KeyWriteTimeInformation, KeyNoInformation} :
            NtSetInformationKey_Call(t, h, class, SystemTime,
                                     SizeofKEY_WRITE_TIME_INFORMATION)
       \/ NtFlushKey_Call(t, h)
       \/ NtSaveKey_Call(t, h)
       \/ NtClose(t, h)
  \/ NtLoadKey2_Call(t)
  \/ NtUnloadKey_Call(t)

RunRegion(t) ==
  \/ HiveAcquire(t)
  \/ \E flushed \in BOOLEAN : NtFlushKey_Flush(t, flushed)
  \/ \E outcome \in SaveOutcomes : NtSaveKey_Save(t, outcome)
  \/ \E status \in {STATUS_SUCCESS, STATUS_UNSUCCESSFUL} : NtLoadKey2_Load(t, status)
  \/ \E status \in {STATUS_SUCCESS, STATUS_UNSUCCESSFUL} : NtUnloadKey_Unload(t, status)

NextRegion ==
  \E t \in KeyThreads : StartRegion(t) \/ RunDisp(t) \/ RunRegion(t)

SpecRegion == InitDisp /\ [][NextRegion]_vars

\* the dispatcher of thread t is at its return
DispatcherReturns(t) ==
  /\ pc[t] \in {"NtCreateKey", "NtOpenKey"} \cup HandleDispatchers \cup HiveDispatchers
  /\ call[t].pc = "ret"

\* C35: when a dispatcher returns, on every path, its thread holds neither
\* CmiRegistryLock nor CmiCallbackLock and has left every critical region it
\* entered
C35_NoLockHeldAtReturn ==
  \A t \in Threads :
    DispatcherReturns(t) =>
      /\ ~HoldsRegistryLock(t)
      /\ CmiCallbackLock # t
      /\ call[t].critical = 0

\* NtSaveKey has refused a volatile key under the registry lock and is at
\* its return
C35_Witness ==
  \E t \in Threads :
    /\ DispatcherReturns(t)
    /\ pc[t] = "NtSaveKey"
    /\ call[t].locked
    /\ call[t].Status = STATUS_ACCESS_DENIED


(***************************************************************************)
(* The references of a key object under NtCreateKey, NtOpenKey and         *)
(* NtDeleteKey.                                                            *)
(***************************************************************************)
StartRefs(t) ==
  \/ \E name \in KeyNames : NtCreateKey_Call(t, name, REG_OPTION_NON_VOLATILE, 0)
  \/ \E name \in KeyNames : NtOpenKey_Call(t, name)
  \/ \E h \in Handles : NtDeleteKey_Call(t, h)

RunRefs(t) ==
  \/ InvokeAcquire(t)
  \/ InvokeWalk(t)
  \/ NtCreateKey_Find(t)
  \/ NtCreateKey_Acquire(t)
  \/ NtCreateKey_Insert(t)
  \/ NtCreateKey_PostDone(t)
  \/ NtCreateKey_Sync(t)
  \/ NtOpenKey_Find(t)
  \/ NtOpenKey_PostDone(t)
  \/ HandlePreDone(t)
  \/ HandleAcquire(t)
  \/ NtDeleteKey_Mark(t)
  \/ HandlePostDone(t)
  \/ KeyCellFault(t)
  \/ DispatcherReturn(t)

NextRefs == \E t \in KeyThreads : StartRefs(t) \/ RunRefs(t)

InitRefs ==
  /\ InitCallbacks(0)
  /\ InitKeys([Keys |-> MaxKeys, Handles |-> MaxHandles, Values |-> 0, DataCells |-> 0])

SpecRefs == InitRefs /\ [][NextRefs]_vars

\* the NtDeleteKey of thread t is at its return and an earlier NtDeleteKey
\* of the same key object had gone through the registry lock
DeletedAgain(t) ==
  /\ pc[t] = "NtDeleteKey"
  /\ call[t].pc = "ret"
  /\ call[t].locked
  /\ LET was == call[t].before.KeyObject[call[t].KeyObject]
     IN KO_MARKED_FOR_DELETE \in was.Flags \/ was.Refused

\* C36: over NtCreateKey, NtOpenKey and NtDeleteKey calls the key object of
\* an open handle is not finalized and keeps a reference count of at least
\* 1, and an NtDeleteKey that is repeated on a key, also one that returns
\* STATUS_CANNOT_DELETE, drops only the reference it took itself: the
\* keep-alive reference is dropped once
C36_OpenHandleKeepsReference ==
  /\ \A h \in Handles :
       HandleTable[h] # NoObject =>
         /\ KeyObject[HandleTable[h]].Allocated
         /\ KeyObject[HandleTable[h]].PointerCount >= 1
  /\ \A t \in Threads :
       DeletedAgain(t) =>
         /\ KeyObject[call[t].KeyObject].Allocated
         /\ KeyObject[call[t].KeyObject].PointerCount =
              call[t].before.KeyObject[call[t].KeyObject].PointerCount

\* what does hold: every NtDeleteKey that goes through the registry lock on
\* a key of its parent's hive calls ObDereferenceObject twice, whatever it
\* returns and whether or not the key was deleted before
DeleteKeyDropsTwo ==
  \A t \in Threads :
    (pc[t] = "NtDeleteKey" /\ call[t].pc = "ret" /\ call[t].locked) =>
      call[t].dereferenced = 2


\* ---- C37: dispatcher writes and the caller's Length ------------------------

StartBuffer(t) ==
  \/ \E name \in NodeNames, Class \in ClassSizes :
       NtCreateKey_Call(t, name, REG_OPTION_NON_VOLATILE, Class)
  \/ NtOpenKey_Call(t, <<>>)
  \/ \E h \in Handles :
       \/ \E n \in DataSizes :
            /\ HandleTable[h] = RootKey
            /\ NtSetValueKey_Call(t, h, "V", REG_SZ, Bytes(n, "a"), n)
       \/ \E class \in KeyClasses, Length \in 0..MaxLength :
            \/ NtEnumerateKey_Call(t, h, 0, class, Length)
            \/ NtQueryKey_Call(t, h, class, Length)
       \/ \E class \in ValueClasses, Length \in 0..MaxLength :
            \/ NtEnumerateValueKey_Call(t, h, 0, class, Length)
            \/ NtQueryValueKey_Call(t, h, "V", class, Length)
       \/ NtClose(t, h)

RunBuffer(t) ==
  \/ InvokeAcquire(t)
  \/ InvokeWalk(t)
  \/ NtCreateKey_Find(t)
  \/ NtCreateKey_Acquire(t)
  \/ NtCreateKey_Insert(t)
  \/ NtCreateKey_PostDone(t)
  \/ NtCreateKey_Sync(t)
  \/ NtOpenKey_Find(t)
  \/ NtOpenKey_PostDone(t)
  \/ HandlePreDone(t)
  \/ HandleAcquire(t)
  \/ NtEnumerateKey_Read(t)
  \/ NtEnumerateValueKey_Read(t)
  \/ NtQueryKey_Read(t)
  \/ NtQueryValueKey_Read(t)
  \/ NtSetValueKey_Set(t)
  \/ HandlePostDone(t)
  \/ HandleSync(t)
  \/ DispatcherReturn(t)

NextBuffer == \E t \in KeyThreads : StartBuffer(t) \/ RunBuffer(t)

SpecBuffer == InitInfo /\ [][NextBuffer]_vars

BufferDispatchers ==
  {"NtEnumerateKey", "NtEnumerateValueKey", "NtQueryKey", "NtQueryValueKey"}

\* thread t is at the return of one of the four dispatchers and that call
\* has written into the caller's buffer
WroteBuffer(t) ==
  /\ pc[t] \in BufferDispatchers
  /\ call[t].pc = "ret"
  /\ call[t].Info # <<>>

\* the writes of the call of thread t that end past the first Length bytes
Overruns(t) ==
  {w \in call[t].Info.Writes : w.Size > 0 /\ w.At + w.Size > call[t].Length}

\* C37: for every information class of NtEnumerateKey, NtEnumerateValueKey,
\* NtQueryKey and NtQueryValueKey, every stored name, class and data size
\* and every Length, all the bytes the dispatcher writes to the caller's
\* buffer lie within the first Length bytes of that buffer
C37_WritesWithinLength ==
  \A t \in Threads : WroteBuffer(t) => Overruns(t) = {}

\* what does hold: NtEnumerateValueKey stays within Length for every class,
\* and so do the Basic and Full classes of the two key dispatchers and the
\* Basic and Partial classes of NtQueryValueKey; the only writes past Length
\* are the class bytes of KeyNodeInformation (copied to Name plus a byte
\* count taken as a count of characters) and the data bytes of NtQueryValueKey
\* with KeyValueFullInformation (room rounded up to a pointer size)
WritesPastLengthOutcome ==
  \A t \in Threads :
    WroteBuffer(t) =>
      \A w \in Overruns(t) :
        \/ /\ pc[t] \in {"NtEnumerateKey", "NtQueryKey"}
           /\ call[t].KeyInformationClass = KeyNodeInformation
           /\ w.What = "Class"
        \/ /\ pc[t] = "NtQueryValueKey"
           /\ call[t].KeyInformationClass = KeyValueFullInformation
           /\ w.What = "Data"

\* NtQueryKey with KeyNodeInformation and a Length of exactly the required
\* size writes the class of a named key past the end of the buffer
QueryKeyNodeOverrun ==
  \E t \in Threads :
    /\ WroteBuffer(t)
    /\ pc[t] = "NtQueryKey"
    /\ call[t].Length = call[t].ResultLength
    /\ Overruns(t) # {}


\* ---- C38: a tombstoned key and new subkeys ---------------------------------

ParentName == <<"X">>
ChildName == <<"X", Backslash, "X">>

\* the first thread creates and deletes the parent; every other thread
\* creates the child
StartTomb(t) ==
  \/ /\ t \in KeyThreads
     /\ NtCreateKey_Call(t, ParentName, REG_OPTION_NON_VOLATILE, 0)
  \/ /\ t \notin KeyThreads
     /\ NtCreateKey_Call(t, ChildName, REG_OPTION_NON_VOLATILE, 0)
  \/ \E h \in Handles :
       /\ t \in KeyThreads
       /\ NtDeleteKey_Call(t, h)

RunTomb(t) ==
  \/ InvokeAcquire(t)
  \/ InvokeWalk(t)
  \/ NtCreateKey_Find(t)
  \/ NtCreateKey_Acquire(t)
  \/ NtCreateKey_Insert(t)
  \/ NtCreateKey_PostDone(t)
  \/ NtCreateKey_Sync(t)
  \/ HandlePreDone(t)
  \/ HandleAcquire(t)
  \/ NtDeleteKey_Mark(t)
  \/ HandlePostDone(t)
  \/ KeyCellFault(t)
  \/ DispatcherReturn(t)

NextTomb == \E t \in Threads : StartTomb(t) \/ RunTomb(t)

InitTomb ==
  /\ InitCallbacks(0)
  /\ InitKeys([Keys |-> MaxKeys, Handles |-> MaxHandles, Values |-> 0, DataCells |-> 0])

SpecTomb == InitTomb /\ [][NextTomb]_vars

\* the key objects that are marked for delete and not yet finalized
Tombstoned ==
  {o \in ObjIds : /\ KeyObject[o].Allocated
                  /\ KO_MARKED_FOR_DELETE \in KeyObject[o].Flags
                  /\ KeyObject[o].KeyCellOffset \in CellIds}

\* C38: a key object with MARKED_FOR_DELETE set never gains a subkey: in
\* every sequential order and every interleaving of NtDeleteKey(parent) and
\* NtCreateKey of a new child under that parent, the total subkey count of
\* every tombstoned key is zero in every reachable state
C38_TombstoneHasNoSubKeys ==
  \A o \in Tombstoned :
    LET cell == Cells[KeyObject[o].KeyCellOffset]
    IN cell.SubKeyCounts[HvStable] + cell.SubKeyCounts[HvVolatile] = 0

\* what does hold: NtDeleteKey marks only a key that has no subkey at that
\* moment, so every subkey of a tombstoned key was inserted by an NtCreateKey
\* after the mark (the marked-for-delete test of NtCreateKey covers only the
\* key the whole name leads to, never the parent of a new key)
TombstoneMarkedWithoutSubKeys ==
  [][\A o \in ObjIds :
       (/\ KeyObject[o].Allocated
        /\ KO_MARKED_FOR_DELETE \notin KeyObject[o].Flags
        /\ KeyObject'[o].Allocated
        /\ KO_MARKED_FOR_DELETE \in KeyObject'[o].Flags
        /\ KeyObject[o].KeyCellOffset \in CellIds) =>
         LET cell == Cells[KeyObject[o].KeyCellOffset]
         IN cell.SubKeyCounts[HvStable] + cell.SubKeyCounts[HvVolatile] = 0]_vars


\* ---- C39: two NtCreateKey calls of the same new name -----------------------

StartTwin(t) == NtCreateKey_Call(t, ParentName, REG_OPTION_NON_VOLATILE, 0)

RunTwin(t) ==
  \/ InvokeAcquire(t)
  \/ InvokeWalk(t)
  \/ NtCreateKey_Find(t)
  \/ NtCreateKey_Acquire(t)
  \/ NtCreateKey_Insert(t)
  \/ NtCreateKey_PostDone(t)
  \/ NtCreateKey_Sync(t)
  \/ DispatcherReturn(t)

NextTwin == \E t \in Threads : StartTwin(t) \/ RunTwin(t)

SpecTwin == InitTomb /\ [][NextTwin]_vars

\* the subkeys of key cell c, in both storages, that carry the name
SubKeysNamed(cells, c, name) ==
  {i \in 1..Len(SubKeys(cells, c)) : cells[SubKeys(cells, c)[i]].Name = name}

\* the NtCreateKey of thread t is at its return, and the key it names did not
\* exist when the call was made
CreatedOrOpenedNew(t) ==
  /\ pc[t] = "NtCreateKey"
  /\ call[t].pc = "ret"
  /\ NT_SUCCESS(call[t].Status)
  /\ SubKeysNamed(call[t].before.Cells, RootCell, CellNameOf(call[t].ObjectName)) = {}

\* C39: of two concurrent NtCreateKey calls that name the same child of the
\* same parent, a child that does not exist yet, at most one returns the
\* disposition REG_CREATED_NEW_KEY, and the parent ends with exactly one
\* subkey of that name: lookup and insertion behave as one atomic step
C39_OneCreatesTheKey ==
  \A t1, t2 \in Threads :
    (/\ t1 # t2
     /\ CreatedOrOpenedNew(t1)
     /\ CreatedOrOpenedNew(t2)
     /\ call[t1].ObjectName = call[t2].ObjectName) =>
      /\ ~(/\ call[t1].Disposition = REG_CREATED_NEW_KEY
           /\ call[t2].Disposition = REG_CREATED_NEW_KEY)
      /\ Cardinality(SubKeysNamed(Cells, RootCell, CellNameOf(call[t1].ObjectName))) = 1

\* what does hold: an NtCreateKey that finds the key in the namespace opens
\* it, so a key is created twice only by calls whose lookups both ran before
\* either insertion; the subkeys of one name never outnumber the threads
TwinOutcome ==
  /\ \A t \in Threads :
       (/\ pc[t] = "NtCreateKey"
        /\ call[t].pc = "ret"
        /\ NT_SUCCESS(call[t].Status)
        /\ SubKeysNamed(call[t].before.Cells, RootCell,
                        CellNameOf(call[t].ObjectName)) # {}) =>
         call[t].Disposition = REG_OPENED_EXISTING_KEY
  /\ Cardinality(SubKeysNamed(Cells, RootCell, CellNameOf(ParentName))) <= NumThreads


\* both calls have created a key of the one name
BothCreated ==
  \E t1, t2 \in Threads :
    /\ t1 # t2
    /\ CreatedOrOpenedNew(t1)
    /\ CreatedOrOpenedNew(t2)
    /\ call[t1].Disposition = REG_CREATED_NEW_KEY
    /\ call[t2].Disposition = REG_CREATED_NEW_KEY
    /\ Cardinality(SubKeysNamed(Cells, RootCell, CellNameOf(ParentName))) = 2


\* ---- C40: the reference held across the post-callback ----------------------

\* the post-callback of the handle dispatcher that thread t runs has been
\* invoked and has not yet returned to the dispatcher, and it was given a key
\* object
InPostCallback(t) ==
  /\ pc[t] \in HandleDispatchers
  /\ call[t].pc \in {"post", "failed"}
  /\ call[t].postCalls > 0
  /\ call[t].postObject # NoObject

\* C40: in every dispatcher, at the moment a post-callback is invoked with a
\* non-NULL Object, the dispatcher still holds the reference it took on that
\* key object: the object is dereferenced only after the post-callback has
\* returned
C40_ReferenceHeldInPostCallback ==
  \A t \in Threads : InPostCallback(t) => call[t].referenced

\* what does hold: every dispatcher that takes a key handle, other than
\* NtEnumerateValueKey, holds its reference while its post-callback runs,
\* and NtEnumerateValueKey does on the path of a failing pre-callback
ReferenceHeldOutcome ==
  \A t \in Threads :
    (InPostCallback(t) /\ ~call[t].referenced) =>
      /\ pc[t] = "NtEnumerateValueKey"
      /\ call[t].pc = "post"

====
